---------------------------- MODULE Spec2Model ----------------------------
(***************************************************************************)
(* Verification model of frenzeldk/shopify-tools.                          *)
(*                                                                         *)
(*   SpecCompare  vendor/Shopify reconciliation                            *)
(*                (web_tools/shopify.py: compare_vendor_products)          *)
(*   SpecCache    the Shipmondo item cache and its refresh threads         *)
(*                (web_tools/app.py, web_tools/shipmondo.py)               *)
(*   SpecFetch    the paginated Shopify catalog fetch                      *)
(*                (web_tools/shopify.py: fetch_shopify_products_by_vendors)*)
(*                                                                         *)
(* Python strings that the code inspects character by character are        *)
(* sequences of one-character strings; opaque identifiers are TLA+ strings.*)
(***************************************************************************)
EXTENDS Integers, Sequences, FiniteSets, TLC

VARIABLES
    \* ---- reconciliation (SpecCompare) ----
    vendor_products,    \* list of vendor row dicts, as it is in memory
    shopify_products,   \* catalog: list of products in dict insertion order
    result,             \* value returned by the last compare_vendor_products
    prev_result,        \* value returned by the call before that
    cpc,                \* "start" | "once" | "twice": calls made so far
    \* ---- Shipmondo cache (SpecCache) ----
    shipmondo_cache,    \* [items, last_updated, is_refreshing]
    shipmondo_lock,     \* "free", or the thread that holds the lock
    pc,                 \* per job thread: where it is in fetch_and_cache_shipmondo_items
    page,               \* per job thread: fetch_all_shipmondo_items' page
    all_items,          \* per job thread: fetch_all_shipmondo_items' all_items
    failed_page,        \* per job thread: page whose request raised, 0 if none
    route_reply,        \* status of the last refresh_shipmondo_cache response
    now,                \* the clock datetime.now() reads
    \* ---- Shopify catalog fetch (SpecFetch) ----
    upstream,           \* what the Admin API serves: vendor -> list of products
    page_size,          \* [products, variants]: edges the API puts on one page
    fpc,                \* where fetch_shopify_products_by_vendors is
    vendor_idx,         \* position of the "for vendor in vendors" loop
    has_next_page,      \* its local of that name
    after_cursor,       \* its local of that name (0 is None)
    edges,              \* result["products"]["edges"] of the last products query
    page_info,          \* result["products"]["pageInfo"] of the last products query
    edge_idx,           \* position of the "for edge in ..." loop
    variant_skus,       \* its local of that name
    v_has_next,         \* its local of that name
    v_cursor,           \* its local of that name (0 is None)
    products_map,       \* the dict it returns
    requests,           \* queries executed so far
    \* ---- regex bin update (SpecBins) ----
    bin_items,          \* shipmondo_cache["items"]: item dicts in insertion order
    regex_pattern,      \* the request's regex_pattern
    replacement,        \* the request's replacement
    match_result,       \* what batch_update_bins_with_regex returned
    bin_requests,       \* the PUT /items/{id} requests made, each with its outcome
    bpc,                \* "start" | "done"
    \* ---- vendor CSV parsing (SpecParse) ----
    csv_fieldnames,     \* the header line, as csv.DictReader reads it
    csv_lines,          \* the data lines, each a list of fields
    parse_result,       \* [raised, products]
    ppc,                \* "start" | "done"
    \* ---- retail price (SpecPrice) ----
    eur_cents,          \* the vendor price, in EUR cents
    retail_price,       \* the text _eur_to_dkk_retail returned
    unit_cost,          \* inventoryItem.cost of the same variant input, in oere
    qpc,                \* "start" | "done"
    \* ---- add_variants_to_shopify_product (SpecWrite) ----
    shop_product,       \* the product as the API holds it: variants, options
    metaobjects,        \* display names that have a metaobject of the colour type
    variants_data,      \* the rows to write
    wpc,                \* position in add_variants_to_shopify_product
    existing_price,     \* price text of the first existing variant
    existing_variants,  \* the existing variants, as [combo, id]
    option_info,        \* option name -> [linked, values]
    opt_queue,          \* needed_values still to go through
    variants_to_create,
    variants_to_update,
    all_created,
    all_errors,
    write_result,       \* [status, at, created, errors]
    api_calls,          \* the API calls made so far, with their outcome
    \* ---- _resolve_metaobject_values (SpecResolve) ----
    metaobject_list,    \* display names of the metaobjects of the type, by id
    mo_page_size,       \* edges the API returns on one page
    display_names,      \* the names to resolve
    mo_after,           \* the cursor: edges read so far
    all_mos,            \* display name -> id
    resolution,         \* [resolved, missing]
    rpc,                \* "list" | "partition" | "done"
    \* ---- handle_order (SpecPause) ----
    line_items,         \* the order's line items as the order query returns them
    order_log,          \* the requests handle_order made, each with its outcome
    hpc,                \* position in handle_order
    \* ---- _resume_orders (SpecResume) ----
    open_orders,        \* the orders get_orders returned, in its order
    stock_levels,       \* inventory item -> what the inventory level query gives as available
    _inventory_cache,   \* the module's dict of that name
    order_idx,          \* position of the loop over the orders
    resume_log,         \* the Shipmondo and tagsRemove requests made, with their outcome
    spc,                \* position in _resume_orders
    \* ---- vendor stock sync (SpecSync) ----
    sync_vendor,        \* which vendor's sync runs
    vendor_feed,        \* the vendor's feed as the script holds it: key -> value
    shop_catalog,       \* the vendor's products in the shop, each with its variants
    sync_first,         \* [products, variants]: edges the API puts on one page
    sync_after,         \* after_cursor (0 is None)
    sync_run,           \* 1 for the first run of the script, 2 for the next
    sync_log,           \* per run and product visited: the bulk update sent, if any
    ypc,                \* position in the run
    \* ---- _attach_color_images (SpecImages) ----
    image_rows,         \* variants_data: the rows, each with sku and color
    created_variants,   \* the variants the bulk mutations reported, each with id and sku
    color_image_urls,   \* the images supplied: colors in the dict's order
    created_media,      \* the media list productCreateMedia returned
    media_i,            \* position of the loop over created_media
    image_calls,        \* the mutations sent, with what they carried
    ipc                 \* position in _attach_color_images

compareVars == <<vendor_products, shopify_products, result, prev_result, cpc>>

cacheVars ==
    <<shipmondo_cache, shipmondo_lock, pc, page, all_items, failed_page,
      route_reply, now>>

fetchVars ==
    <<upstream, page_size, fpc, vendor_idx, has_next_page, after_cursor, edges,
      page_info, edge_idx, variant_skus, v_has_next, v_cursor, products_map,
      requests>>

binVars == <<bin_items, regex_pattern, replacement, match_result, bin_requests, bpc>>

parseVars == <<csv_fieldnames, csv_lines, parse_result, ppc>>

priceVars == <<eur_cents, retail_price, unit_cost, qpc>>

writeVars ==
    <<shop_product, metaobjects, variants_data, wpc, existing_price, existing_variants,
      option_info, opt_queue, variants_to_create, variants_to_update, all_created,
      all_errors, write_result, api_calls>>

resolveVars ==
    <<metaobject_list, mo_page_size, display_names, mo_after, all_mos, resolution, rpc>>

pauseVars ==
    <<line_items, order_log, hpc>>

resumeVars ==
    <<open_orders, stock_levels, _inventory_cache, order_idx, resume_log, spc>>

syncVars ==
    <<sync_vendor, vendor_feed, shop_catalog, sync_first, sync_after, sync_run, sync_log, ypc>>

imagesVars ==
    <<image_rows, created_variants, color_image_urls, created_media, media_i, image_calls, ipc>>

vars ==
    <<compareVars, cacheVars, fetchVars, binVars, parseVars, priceVars, writeVars,
      resolveVars,
      pauseVars,
      resumeVars,
      syncVars,
      imagesVars>>

\* what the steps of one part of the program leave alone
outsideCompare ==
    <<cacheVars, fetchVars, binVars, parseVars, priceVars, writeVars, resolveVars,
      pauseVars,
      resumeVars,
      syncVars,
      imagesVars>>
outsideCache ==
    <<compareVars, fetchVars, binVars, parseVars, priceVars, writeVars, resolveVars,
      pauseVars,
      resumeVars,
      syncVars,
      imagesVars>>
outsideFetch ==
    <<compareVars, cacheVars, binVars, parseVars, priceVars, writeVars, resolveVars,
      pauseVars,
      resumeVars,
      syncVars,
      imagesVars>>
outsideBins ==
    <<compareVars, cacheVars, fetchVars, parseVars, priceVars, writeVars, resolveVars,
      pauseVars,
      resumeVars,
      syncVars,
      imagesVars>>
outsideParse ==
    <<compareVars, cacheVars, fetchVars, binVars, priceVars, writeVars, resolveVars,
      pauseVars,
      resumeVars,
      syncVars,
      imagesVars>>
outsidePrice ==
    <<compareVars, cacheVars, fetchVars, binVars, parseVars, writeVars, resolveVars,
      pauseVars,
      resumeVars,
      syncVars,
      imagesVars>>
outsideWrite ==
    <<compareVars, cacheVars, fetchVars, binVars, parseVars, priceVars, resolveVars,
      pauseVars,
      resumeVars,
      syncVars,
      imagesVars>>
outsideResolve ==
    <<compareVars, cacheVars, fetchVars, binVars, parseVars, priceVars, writeVars,
      pauseVars,
      resumeVars,
      syncVars,
      imagesVars>>
outsidePause ==
    <<compareVars, cacheVars, fetchVars, binVars, parseVars, priceVars, writeVars,
      resolveVars,
      resumeVars,
      syncVars,
      imagesVars>>
outsideResume ==
    <<compareVars, cacheVars, fetchVars, binVars, parseVars, priceVars, writeVars,
      resolveVars, pauseVars,
      syncVars,
      imagesVars>>
outsideSync ==
    <<compareVars, cacheVars, fetchVars, binVars, parseVars, priceVars, writeVars,
      resolveVars, pauseVars, resumeVars,
      imagesVars>>
outsideImages ==
    <<compareVars, cacheVars, fetchVars, binVars, parseVars, priceVars, writeVars,
      resolveVars, pauseVars, resumeVars, syncVars>>

-----------------------------------------------------------------------------
(* Bounds of the model *)

MaxRows == 3        \* vendor rows in one feed
MaxVariants == 1    \* variants of one catalog product
NumPages == 2       \* non-empty pages the Shipmondo item listing has
MaxClock == 2       \* last reading of the clock
MaxProducts == 2    \* products one vendor has upstream
MaxVars == 2        \* variants one upstream product has
MaxPageSize == 2    \* edges the API returns on one page
MaxItems == 3       \* items in the Shipmondo item map
MaxSizeLen == 4     \* characters of a Size field
MaxLines == 3       \* data lines of a vendor CSV
MaxPriceCents == 12000  \* the highest vendor price, in EUR cents
MaxWriteRows == 2   \* rows of one add_variants_to_shopify_product call
MaxMetaobjects == 3 \* metaobjects of one type
MaxNames == 2       \* display names to resolve in one call
MaxLineItems == 3   \* line items of one order
MaxOrders == 2      \* open orders of one resume run
MaxSyncProducts == 2    \* products the vendor has in the shop
MaxSyncVariants == 2    \* variants of one of them
MaxImageRows == 2   \* rows of one _attach_color_images call

-----------------------------------------------------------------------------
(* Python string helpers *)

Range(s) == {s[i] : i \in DOMAIN s}

\* str.strip(): whitespace removed from both ends
RECURSIVE LStrip(_)
LStrip(s) ==
    IF s # <<>> /\ Head(s) = " " THEN LStrip(Tail(s)) ELSE s

RECURSIVE RStrip(_)
RStrip(s) ==
    IF s # <<>> /\ s[Len(s)] = " " THEN RStrip(SubSeq(s, 1, Len(s) - 1)) ELSE s

Strip(s) == RStrip(LStrip(s))

\* str.split(sep): the segments between occurrences of sep
RECURSIVE SplitAcc(_, _, _, _)
SplitAcc(s, sep, cur, acc) ==
    IF s = <<>> THEN Append(acc, cur)
    ELSE IF Head(s) = sep THEN SplitAcc(Tail(s), sep, <<>>, Append(acc, cur))
    ELSE SplitAcc(Tail(s), sep, Append(cur, Head(s)), acc)

Split(s, sep) == SplitAcc(s, sep, <<>>, <<>>)

\* sep.join(parts)
RECURSIVE Join(_, _)
Join(parts, sep) ==
    IF parts = <<>> THEN <<>>
    ELSE IF Len(parts) = 1 THEN parts[1]
    ELSE parts[1] \o <<sep>> \o Join(Tail(parts), sep)

-----------------------------------------------------------------------------
(* parse_vendor_csv: the fields the reconciliation reads *)

NoKey == "<absent>"     \* a key the dict does not have

\* product code = first 3 dash-separated parts of the SKU, else the SKU
ProductCodeOf(sku) ==
    LET sku_parts == Split(sku, "-")
    IN  IF Len(sku_parts) >= 3 THEN Join(SubSeq(sku_parts, 1, 3), "-") ELSE sku

\* one CSV row [SKU, EAN13] to one normalised dict
ParseRow(row) ==
    LET sku == Strip(row.SKU)
    IN  [sku |-> sku,
         ean |-> Strip(row.EAN13),
         product_code |-> ProductCodeOf(sku),
         shopify_product_id |-> NoKey,
         shopify_product_title |-> NoKey]

RECURSIVE parse_vendor_csv(_)
parse_vendor_csv(rows) ==
    IF rows = <<>> THEN <<>>
    ELSE IF Strip(Head(rows).SKU) = <<>> THEN parse_vendor_csv(Tail(rows))
    ELSE <<ParseRow(Head(rows))>> \o parse_vendor_csv(Tail(rows))

-----------------------------------------------------------------------------
(* compare_vendor_products *)

NoMatch == [id |-> "None", title |-> "None"]    \* matched_shopify_product = None

\* the (sku, variant) items of the catalog in iteration order, each with
\* the product_ref of its product
RECURSIVE CatalogItems(_)
CatalogItems(sp) ==
    IF sp = <<>> THEN <<>>
    ELSE LET product == Head(sp)
             product_ref == [id |-> product.id, title |-> product.title]
         IN  [i \in 1..Len(product.variants) |->
                 [sku |-> product.variants[i].sku,
                  barcode |-> product.variants[i].barcode,
                  ref |-> product_ref]]
             \o CatalogItems(Tail(sp))

\* a dict write that keeps an existing key's value (setdefault)
DictSet_KeepFirst(d, k, v) == d @@ (k :> v)

\* dict assignment d[k] = v
DictSet(d, k, v) == (k :> v) @@ d

RECURSIVE SkuIndex(_, _)
SkuIndex(items, acc) ==
    IF items = <<>> THEN acc
    ELSE LET e == Head(items)
         IN  SkuIndex(Tail(items),
                      IF e.sku # <<>> THEN DictSet(acc, e.sku, e.ref) ELSE acc)

RECURSIVE BarcodeIndex(_, _)
BarcodeIndex(items, acc) ==
    IF items = <<>> THEN acc
    ELSE LET e == Head(items)
         IN  BarcodeIndex(Tail(items),
                          IF e.barcode # <<>> THEN DictSet(acc, e.barcode, e.ref)
                          ELSE acc)

sku_to_product(sp) == SkuIndex(CatalogItems(sp), <<>>)
barcode_to_product(sp) == BarcodeIndex(CatalogItems(sp), <<>>)

known_skus(sp) ==
    {e.sku : e \in {x \in Range(CatalogItems(sp)) : x.sku # <<>>}}
known_barcodes(sp) ==
    {e.barcode : e \in {x \in Range(CatalogItems(sp)) : x.barcode # <<>>}}

\* vendor_by_code: the keys in insertion order, and the row indices of a key
RECURSIVE CodesFrom(_, _, _)
CodesFrom(vp, i, acc) ==
    IF i > Len(vp) THEN acc
    ELSE LET code == Strip(vp[i].product_code)
         IN  CodesFrom(vp, i + 1,
                       IF code # <<>> /\ code \notin Range(acc)
                       THEN Append(acc, code) ELSE acc)

GroupCodes(vp) == CodesFrom(vp, 1, <<>>)

RECURSIVE GroupFrom(_, _, _)
GroupFrom(vp, code, i) ==
    IF i > Len(vp) THEN <<>>
    ELSE (IF Strip(vp[i].product_code) = code THEN <<i>> ELSE <<>>)
         \o GroupFrom(vp, code, i + 1)

GroupItems(vp, code) == GroupFrom(vp, code, 1)

\* the probe loop without its loop: only the group's first item is probed
MatchedProduct_FirstOnly(vp, items, sp) ==
    IF items = <<>> THEN NoMatch
    ELSE LET item == vp[Head(items)]
             ean == Strip(item.ean)
         IN  IF item.sku # <<>> /\ item.sku \in DOMAIN sku_to_product(sp)
             THEN sku_to_product(sp)[item.sku]
             ELSE IF ean # <<>> /\ ean \in DOMAIN barcode_to_product(sp)
             THEN barcode_to_product(sp)[ean]
             ELSE NoMatch

\* the probe loop without the EAN probe
RECURSIVE MatchedProduct_SkuOnly(_, _, _)
MatchedProduct_SkuOnly(vp, items, sp) ==
    IF items = <<>> THEN NoMatch
    ELSE LET item == vp[Head(items)]
         IN  IF item.sku # <<>> /\ item.sku \in DOMAIN sku_to_product(sp)
             THEN sku_to_product(sp)[item.sku]
             ELSE MatchedProduct_SkuOnly(vp, Tail(items), sp)

\* the probe loop without its breaks: the last hit decides
RECURSIVE MatchedProduct_NoBreak(_, _, _)
MatchedProduct_NoBreak(vp, items, sp) ==
    IF items = <<>> THEN NoMatch
    ELSE LET item == vp[Head(items)]
             ean == Strip(item.ean)
             later == MatchedProduct_NoBreak(vp, Tail(items), sp)
         IN  IF later # NoMatch THEN later
             ELSE IF item.sku # <<>> /\ item.sku \in DOMAIN sku_to_product(sp)
             THEN sku_to_product(sp)[item.sku]
             ELSE IF ean # <<>> /\ ean \in DOMAIN barcode_to_product(sp)
             THEN barcode_to_product(sp)[ean]
             ELSE NoMatch

\* the probe loop: the first item with a SKU hit or an EAN hit decides
RECURSIVE MatchedProduct(_, _, _)
MatchedProduct(vp, items, sp) ==
    IF items = <<>> THEN NoMatch
    ELSE LET item == vp[Head(items)]
             sku == item.sku
             ean == Strip(item.ean)
         IN  IF sku # <<>> /\ sku \in DOMAIN sku_to_product(sp)
             THEN sku_to_product(sp)[sku]
             ELSE IF ean # <<>> /\ ean \in DOMAIN barcode_to_product(sp)
             THEN barcode_to_product(sp)[ean]
             ELSE MatchedProduct(vp, Tail(items), sp)

sku_exists(item, sp) == item.sku # <<>> /\ item.sku \in known_skus(sp)
ean_exists(item, sp) ==
    Strip(item.ean) # <<>> /\ Strip(item.ean) \in known_barcodes(sp)

\* "or" in place of "and": a row with one of the two unknown is emitted
IsNewVariant_Either(item, sp) == ~sku_exists(item, sp) \/ ~ean_exists(item, sp)

IsNewVariant(item, sp) == ~sku_exists(item, sp) /\ ~ean_exists(item, sp)

\* the entry is the input row itself (no item.copy())
CopyTarget_Alias(i) == i

\* the object an output entry is: 0 is a fresh dict (item.copy()), i > 0
\* would be the input row i itself
CopyTarget(i) == 0

TagEntry(item, matched) ==
    [item EXCEPT !.shopify_product_id = matched.id,
                 !.shopify_product_title = matched.title]

\* the rows of one group that go to new_variants, as row indices
RECURSIVE NewVariantRows(_, _, _)
NewVariantRows(vp, items, sp) ==
    IF items = <<>> THEN <<>>
    ELSE (IF IsNewVariant(vp[Head(items)], sp) THEN <<Head(items)>> ELSE <<>>)
         \o NewVariantRows(vp, Tail(items), sp)

\* one pass over the groups; acc = [new_products, new_variants, rows], where
\* rows is the vendor list as the writes of the pass leave it
RECURSIVE CompareGroups(_, _, _, _)
CompareGroups(vp, codes, sp, acc) ==
    IF codes = <<>> THEN acc
    ELSE
      LET items == GroupItems(vp, Head(codes))
          matched == MatchedProduct(vp, items, sp)
          nv == NewVariantRows(vp, items, sp)
      IN  IF matched = NoMatch
          THEN CompareGroups(vp, Tail(codes), sp,
                 [acc EXCEPT !.new_products =
                     @ \o [k \in 1..Len(items) |-> acc.rows[items[k]]]])
          ELSE CompareGroups(vp, Tail(codes), sp,
                 [acc EXCEPT
                    !.new_variants =
                        @ \o [k \in 1..Len(nv) |-> TagEntry(acc.rows[nv[k]], matched)],
                    !.rows =
                        [i \in 1..Len(vp) |->
                            IF i \in Range(nv) /\ CopyTarget(i) = i
                            THEN TagEntry(acc.rows[i], matched)
                            ELSE acc.rows[i]]])

compare_vendor_products(vp, sp) ==
    CompareGroups(vp, GroupCodes(vp), sp,
                  [new_products |-> <<>>, new_variants |-> <<>>, rows |-> vp])

-----------------------------------------------------------------------------
(* Inputs of the reconciliation *)

SkuA1 == <<"a", "-", "b", "-", "c", "-", "1">>
SkuA2 == <<"a", "-", "b", "-", "c", "-", "2">>
SkuA3 == <<"a", "-", "b", "-", "c", " ", "-", "3">>    \* product code "a-b-c "
SkuD == <<"d">>
Ean1 == <<"1">>

\* raw CSV rows; padded and empty fields included
RawRows ==
    {[SKU |-> SkuA1, EAN13 |-> <<>>],
     [SKU |-> <<" ">> \o SkuA1, EAN13 |-> <<" ">>],
     [SKU |-> SkuA2, EAN13 |-> <<>>],
     [SKU |-> SkuA2, EAN13 |-> <<" ">> \o Ean1],
     [SKU |-> SkuA3, EAN13 |-> <<>>],
     [SKU |-> SkuD, EAN13 |-> <<>>],
     [SKU |-> SkuD, EAN13 |-> Ean1 \o <<" ">>],
     [SKU |-> <<" ">>, EAN13 |-> Ean1]}

SeqsUpTo(S, n) == UNION {[1..k -> S] : k \in 0..n}

\* the feeds the comparison is reached with: an empty parse is answered
\* with an error before it
VendorFeeds ==
    {parse_vendor_csv(rows) : rows \in SeqsUpTo(RawRows, MaxRows)} \ {<<>>}

\* catalog variants: SKU may be empty (a placeholder variant), barcode too
CatalogSkus == <<<<>>, SkuA1>>
CatalogBarcodes == {<<>>, Ean1}

RECURSIVE SeqOfSet(_, _)
SeqOfSet(idx, f) ==
    IF idx = {} THEN <<>>
    ELSE LET i == CHOOSE x \in idx : \A y \in idx : x <= y
         IN  <<[sku |-> CatalogSkus[i], barcode |-> f[i]]>> \o SeqOfSet(idx \ {i}, f)

\* a product's variants dict: distinct SKUs, at most MaxVariants of them
VariantDicts ==
    UNION {{SeqOfSet(idx, f) : f \in [idx -> CatalogBarcodes]} :
           idx \in {s \in SUBSET DOMAIN CatalogSkus : Cardinality(s) <= MaxVariants}}

Catalogs ==
    {<<[id |-> "gid1", title |-> "T1", variants |-> v1],
       [id |-> "gid2", title |-> "T2", variants |-> v2]>> :
     v1 \in VariantDicts, v2 \in VariantDicts}

NoResult == [new_products |-> <<>>, new_variants |-> <<>>]

\* no bin update requested
InitBinsState ==
    /\ bin_items = <<>>
    /\ regex_pattern = <<>>
    /\ replacement = <<>>
    /\ match_result = [error |-> FALSE, matching_items |-> <<>>, count |-> 0]
    /\ bin_requests = <<>>
    /\ bpc = "start"

\* nothing parsed
InitParseState ==
    /\ csv_fieldnames = <<>>
    /\ csv_lines = <<>>
    /\ parse_result = [raised |-> FALSE, products |-> <<>>]
    /\ ppc = "start"

\* no price derived
InitPriceState ==
    /\ eur_cents = 0
    /\ retail_price = <<>>
    /\ unit_cost = 0
    /\ qpc = "start"

\* the call has not begun
Pending == [status |-> "pending", at |-> "none", created |-> <<>>, errors |-> <<>>]

\* no write requested
InitWriteState ==
    /\ shop_product = [variants |-> <<>>, options |-> <<>>]
    /\ metaobjects = {}
    /\ variants_data = <<>>
    /\ wpc = "idle"
    /\ existing_price = <<>>
    /\ existing_variants = <<>>
    /\ option_info = <<>>
    /\ opt_queue = <<>>
    /\ variants_to_create = <<>>
    /\ variants_to_update = <<>>
    /\ all_created = <<>>
    /\ all_errors = <<>>
    /\ write_result = Pending
    /\ api_calls = <<>>

\* nothing to resolve
InitResolveState ==
    /\ metaobject_list = <<>>
    /\ mo_page_size = 1
    /\ display_names = <<>>
    /\ mo_after = 0
    /\ all_mos = <<>>
    /\ resolution = [resolved |-> <<>>, missing |-> <<>>]
    /\ rpc = "idle"

\* no order being handled
InitPauseState ==
    /\ line_items = <<>>
    /\ order_log = <<>>
    /\ hpc = "idle"

\* no resume run
InitResumeState ==
    /\ open_orders = <<>>
    /\ stock_levels = <<>>
    /\ _inventory_cache = <<>>
    /\ order_idx = 1
    /\ resume_log = <<>>
    /\ spc = "idle"

\* no stock sync running
InitSyncState ==
    /\ sync_vendor = "none"
    /\ vendor_feed = <<>>
    /\ shop_catalog = <<>>
    /\ sync_first = [products |-> 1, variants |-> 1]
    /\ sync_after = 0
    /\ sync_run = 1
    /\ sync_log = <<>>
    /\ ypc = "idle"

\* no images to attach
InitImagesState ==
    /\ image_rows = <<>>
    /\ created_variants = <<>>
    /\ color_image_urls = <<>>
    /\ created_media = <<>>
    /\ media_i = 1
    /\ image_calls = <<>>
    /\ ipc = "idle"

\* the parts of the program modelled further below, at rest
InitLaterState ==
    /\ InitBinsState
    /\ InitParseState
    /\ InitPriceState
    /\ InitWriteState
    /\ InitResolveState
    /\ InitPauseState
    /\ InitResumeState
    /\ InitSyncState
    /\ InitImagesState

Threads == {"initial", "scheduled", "manual"}

\* the module-level cache and the jobs as create_app leaves them
InitCacheState ==
    /\ shipmondo_cache = [items |-> <<>>, last_updated |-> 0, is_refreshing |-> FALSE]
    /\ shipmondo_lock = "free"
    /\ pc = [t \in Threads |->
               IF t = "initial" THEN "queued"
               ELSE IF t = "scheduled" THEN "waiting" ELSE "idle"]
    /\ page = [t \in Threads |-> 1]
    /\ all_items = [t \in Threads |-> <<>>]
    /\ failed_page = [t \in Threads |-> 0]
    /\ route_reply = "none"
    /\ now = 1

\* no catalog fetch requested
InitFetchState ==
    /\ upstream = <<>>
    /\ page_size = [products |-> 1, variants |-> 1]
    /\ fpc = "idle"
    /\ vendor_idx = 1
    /\ has_next_page = FALSE
    /\ after_cursor = 0
    /\ edges = <<>>
    /\ page_info = [hasNextPage |-> FALSE, endCursor |-> 0]
    /\ edge_idx = 1
    /\ variant_skus = <<>>
    /\ v_has_next = FALSE
    /\ v_cursor = 0
    /\ products_map = <<>>
    /\ requests = 0

InitCompare ==
    /\ InitCacheState
    /\ InitFetchState
    /\ InitLaterState
    /\ vendor_products \in VendorFeeds
    /\ shopify_products \in Catalogs
    /\ result = NoResult
    /\ prev_result = NoResult
    /\ cpc = "start"

\* one call of compare_vendor_products on the vendor list and the catalog
CompareCall ==
    /\ cpc \in {"start", "once"}
    /\ LET out == compare_vendor_products(vendor_products, shopify_products)
       IN  /\ result' = [new_products |-> out.new_products,
                         new_variants |-> out.new_variants]
           /\ vendor_products' = out.rows
    /\ prev_result' = result
    /\ cpc' = IF cpc = "start" THEN "once" ELSE "twice"
    /\ UNCHANGED shopify_products
    /\ UNCHANGED outsideCompare

NextCompare == CompareCall

SpecCompare == InitCompare /\ [][NextCompare]_vars

-----------------------------------------------------------------------------
(* fetch_all_shipmondo_items *)

Digits == <<"1", "2", "3", "4", "5", "6", "7", "8", "9">>

\* GET /items?page=p: a page of the listing, empty past the last page.  An
\* item may come without a SKU, and a SKU may come padded.
ServerPage(p) ==
    IF p <= NumPages
    THEN <<[id |-> p, sku |-> <<"s", Digits[p], " ">>, bin |-> <<"A", Digits[p]>>,
            name |-> "item"],
           [id |-> p + NumPages, sku |-> <<>>, bin |-> <<>>, name |-> "no sku"]>>
    ELSE <<>>

\* the "store all items" loop over one page
RECURSIVE StoreItems(_, _)
StoreItems(acc, items) ==
    IF items = <<>> THEN acc
    ELSE LET item == Head(items)
             sku == Strip(item.sku)
         IN  StoreItems(
                 IF item.sku # <<>> /\ sku # <<>>
                 THEN (sku :> [id |-> item.id, bin |-> item.bin,
                               name |-> item.name, sku |-> sku]) @@ acc
                 ELSE acc,
                 Tail(items))

\* the except branch reached with the request of page p failed: "raise" or
\* "return" (what was collected so far)
ExceptRaisesAlways(p) == "raise"

ExceptReturnsAlways(p) == "return"

OnRequestError(p) == IF p = 1 THEN "raise" ELSE "return"

-----------------------------------------------------------------------------
(* fetch_and_cache_shipmondo_items, run by the scheduler's job threads *)

\* where a job is between two runs
Rest(t) == IF t = "scheduled" THEN "waiting" ELSE "idle"

\* the scheduler starts a job: the one-off jobs once added, the cron job
\* whenever its trigger fires
StartJob(t) ==
    /\ pc[t] \in {"queued", "waiting"}
    /\ pc' = [pc EXCEPT ![t] = "check"]
    /\ UNCHANGED <<shipmondo_cache, shipmondo_lock, page, all_items,
                   failed_page, route_reply, now>>
    /\ UNCHANGED outsideCache

\* if shipmondo_cache["is_refreshing"]: return
CheckRefreshing(t) ==
    /\ pc[t] = "check"
    /\ pc' = [pc EXCEPT ![t] =
                 IF shipmondo_cache.is_refreshing THEN Rest(t) ELSE "set"]
    /\ UNCHANGED <<shipmondo_cache, shipmondo_lock, page, all_items,
                   failed_page, route_reply, now>>
    /\ UNCHANGED outsideCache

\* shipmondo_cache["is_refreshing"] = True; fetch_all_shipmondo_items()
SetRefreshing(t) ==
    /\ pc[t] = "set"
    /\ shipmondo_cache' = [shipmondo_cache EXCEPT !.is_refreshing = TRUE]
    /\ pc' = [pc EXCEPT ![t] = "fetch"]
    /\ page' = [page EXCEPT ![t] = 1]
    /\ all_items' = [all_items EXCEPT ![t] = <<>>]
    /\ failed_page' = [failed_page EXCEPT ![t] = 0]
    /\ UNCHANGED <<shipmondo_lock, route_reply, now>>
    /\ UNCHANGED outsideCache

\* one iteration of the page loop whose request succeeds
FetchPage(t) ==
    /\ pc[t] = "fetch"
    /\ LET items == ServerPage(page[t])
       IN  IF items = <<>>
           THEN /\ pc' = [pc EXCEPT ![t] = "lock"]
                /\ UNCHANGED <<page, all_items>>
           ELSE /\ all_items' = [all_items EXCEPT ![t] = StoreItems(@, items)]
                /\ page' = [page EXCEPT ![t] = @ + 1]
                /\ UNCHANGED pc
    /\ UNCHANGED <<shipmondo_cache, shipmondo_lock, failed_page, route_reply, now>>
    /\ UNCHANGED outsideCache

\* one iteration of the page loop whose request raises RequestException
FetchPageError(t) ==
    /\ pc[t] = "fetch"
    /\ failed_page' = [failed_page EXCEPT ![t] = page[t]]
    /\ pc' = [pc EXCEPT ![t] =
                 IF OnRequestError(page[t]) = "raise" THEN "except" ELSE "lock"]
    /\ UNCHANGED <<shipmondo_cache, shipmondo_lock, page, all_items,
                   route_reply, now>>
    /\ UNCHANGED outsideCache

\* with shipmondo_lock: shipmondo_cache["items"] = items
StoreItemsInCache(t) ==
    /\ pc[t] = "lock"
    /\ shipmondo_lock = "free"
    /\ shipmondo_lock' = t
    /\ shipmondo_cache' = [shipmondo_cache EXCEPT !.items = all_items[t]]
    /\ pc' = [pc EXCEPT ![t] = "stamp"]
    /\ UNCHANGED <<page, all_items, failed_page, route_reply, now>>
    /\ UNCHANGED outsideCache

\* shipmondo_cache["last_updated"] = now; the lock is released
StampCache(t) ==
    /\ pc[t] = "stamp"
    /\ shipmondo_cache' = [shipmondo_cache EXCEPT !.last_updated = now]
    /\ shipmondo_lock' = "free"
    /\ pc' = [pc EXCEPT ![t] = "finally"]
    /\ UNCHANGED <<page, all_items, failed_page, route_reply, now>>
    /\ UNCHANGED outsideCache

\* except Exception as e: logger.error(...)
LogException(t) ==
    /\ pc[t] = "except"
    /\ pc' = [pc EXCEPT ![t] = "finally"]
    /\ UNCHANGED <<shipmondo_cache, shipmondo_lock, page, all_items,
                   failed_page, route_reply, now>>
    /\ UNCHANGED outsideCache

\* finally: shipmondo_cache["is_refreshing"] = False
ClearRefreshing(t) ==
    /\ pc[t] = "finally"
    /\ shipmondo_cache' = [shipmondo_cache EXCEPT !.is_refreshing = FALSE]
    /\ pc' = [pc EXCEPT ![t] = Rest(t)]
    /\ UNCHANGED <<shipmondo_lock, page, all_items, failed_page, route_reply, now>>
    /\ UNCHANGED outsideCache

\* POST /inventory-tools/refresh-shipmondo-cache/
RefreshRoute ==
    /\ pc["manual"] = "idle"
    /\ IF shipmondo_cache.is_refreshing
       THEN /\ route_reply' = "409"
            /\ UNCHANGED pc
       ELSE /\ route_reply' = "started"
            /\ pc' = [pc EXCEPT !["manual"] = "queued"]
    /\ UNCHANGED <<shipmondo_cache, shipmondo_lock, page, all_items,
                   failed_page, now>>
    /\ UNCHANGED outsideCache

\* time passes
Tick ==
    /\ now < MaxClock
    /\ now' = now + 1
    /\ UNCHANGED <<shipmondo_cache, shipmondo_lock, pc, page, all_items,
                   failed_page, route_reply>>
    /\ UNCHANGED outsideCache

\* no comparison requested
InitCompareState ==
    /\ vendor_products = <<>>
    /\ shopify_products = <<>>
    /\ result = NoResult
    /\ prev_result = NoResult
    /\ cpc = "start"

InitCache ==
    /\ InitCacheState
    /\ InitCompareState
    /\ InitFetchState
    /\ InitLaterState

NextCache ==
    \/ \E t \in Threads : StartJob(t)
    \/ \E t \in Threads : CheckRefreshing(t)
    \/ \E t \in Threads : SetRefreshing(t)
    \/ \E t \in Threads : FetchPage(t)
    \/ \E t \in Threads : FetchPageError(t)
    \/ \E t \in Threads : StoreItemsInCache(t)
    \/ \E t \in Threads : StampCache(t)
    \/ \E t \in Threads : LogException(t)
    \/ \E t \in Threads : ClearRefreshing(t)
    \/ RefreshRoute
    \/ Tick

SpecCache == InitCache /\ [][NextCache]_vars

-----------------------------------------------------------------------------
(* fetch_shopify_products_by_vendors and the Admin API it queries *)

FetchVendors == <<"brand1", "brand2">>

MinOf2(a, b) == IF a <= b THEN a ELSE b

\* the SKU of variant j of a product: its own, that of the product's first
\* variant, or none
VariantSku(skus, j) ==
    IF skus = "distinct" THEN <<"k", Digits[j]>>
    ELSE IF skus = "same" THEN <<"k", Digits[1]>>
    ELSE <<>>

\* an upstream product of vendor number v with n variants
UpstreamProduct(v, k, n, skus) ==
    [id |-> <<"Product", v, k>>,
     title |-> <<"title", v, k>>,
     vendor |-> FetchVendors[v],
     handle |-> <<"handle", v, k>>,
     variants |-> [j \in 1..n |->
                     [id |-> <<"Variant", v, k, j>>,
                      sku |-> VariantSku(skus, j),
                      barcode |-> <<"9", Digits[j]>>]]]

\* the catalogs served: every number of products and variants with SKUs of
\* their own, and the catalogs of the first vendor alone also with variants
\* that share a SKU or have none
UpstreamOf(counts, skus) ==
    [v \in DOMAIN FetchVendors |->
        [k \in DOMAIN counts[v] |-> UpstreamProduct(v, k, counts[v][k], skus)]]

Upstreams ==
    LET Counts == [DOMAIN FetchVendors -> SeqsUpTo(1..MaxVars, MaxProducts)]
    IN  {UpstreamOf(counts, "distinct") : counts \in Counts}
        \cup {UpstreamOf(counts, skus) :
                 counts \in {c \in Counts : c[2] = <<>>}, skus \in {"same", "empty"}}

\* a connection's page after a cursor: the next `first` edges and pageInfo
Connection(all, after, first) ==
    LET last == MinOf2(after + first, Len(all))
    IN  [edges |-> [k \in 1..(last - after) |-> [node |-> all[after + k]]],
         pageInfo |-> [hasNextPage |-> last < Len(all), endCursor |-> last]]

\* _PRODUCTS_QUERY: a page of the vendor's products, each with the first
\* page of its variants
ProductsQuery(v, after) ==
    LET conn == Connection(upstream[v], after, page_size.products)
    IN  [products |->
           [edges |-> [k \in DOMAIN conn.edges |->
                         [node |-> [conn.edges[k].node EXCEPT
                                      !.variants = Connection(@, 0, page_size.variants)]]],
            pageInfo |-> conn.pageInfo]]

\* _VARIANT_PAGE_QUERY: a further page of one product's variants
VariantPageQuery(product_id, after) ==
    LET v == product_id[2]
        k == product_id[3]
    IN  [product |->
           [variants |-> Connection(upstream[v][k].variants, after, page_size.variants)]]

\* _parse_variant, the fields the comparison reads
ParseVariant(node) == [id |-> node.id, sku |-> node.sku, barcode |-> node.barcode]

\* for v_edge in edges: variant_skus[parsed["sku"]] = parsed
RECURSIVE AddVariants(_, _)
AddVariants(acc, v_edges) ==
    IF v_edges = <<>> THEN acc
    ELSE LET parsed == ParseVariant(Head(v_edges).node)
         IN  AddVariants((parsed.sku :> parsed) @@ acc, Tail(v_edges))

\* the variant loop left out: only the first page is read
MoreVariantPages_Never(pi) == FALSE

\* v_has_next = v_page_info.get("hasNextPage", False)
MoreVariantPages(pi) == pi.hasNextPage

\* the product loop left out after the first page
MoreProductPages_Never(pi) == FALSE

\* has_next_page = page_info["hasNextPage"]
MoreProductPages(pi) == pi.hasNextPage

\* for vendor in vendors: has_next_page = True; after_cursor = None
NextVendor ==
    /\ fpc = "vendor"
    /\ IF vendor_idx > Len(FetchVendors)
       THEN /\ fpc' = "done"
            /\ UNCHANGED <<has_next_page, after_cursor>>
       ELSE /\ fpc' = "products"
            /\ has_next_page' = TRUE
            /\ after_cursor' = 0
    /\ UNCHANGED <<upstream, page_size, vendor_idx, edges, page_info, edge_idx,
                   variant_skus, v_has_next, v_cursor, products_map, requests>>
    /\ UNCHANGED outsideFetch

\* while has_next_page: result = execute(_PRODUCTS_QUERY)
ProductsPage ==
    /\ fpc = "products"
    /\ IF has_next_page
       THEN LET res == ProductsQuery(vendor_idx, after_cursor)
            IN  /\ edges' = res.products.edges
                /\ page_info' = res.products.pageInfo
                /\ edge_idx' = 1
                /\ requests' = requests + 1
                /\ fpc' = "edge"
                /\ UNCHANGED vendor_idx
       ELSE /\ vendor_idx' = vendor_idx + 1
            /\ fpc' = "vendor"
            /\ UNCHANGED <<edges, page_info, edge_idx, requests>>
    /\ UNCHANGED <<upstream, page_size, has_next_page, after_cursor,
                   variant_skus, v_has_next, v_cursor, products_map>>
    /\ UNCHANGED outsideFetch

\* for edge in result["products"]["edges"]: the first page of variants; after
\* the last edge, has_next_page and after_cursor from pageInfo
ProductEdge ==
    /\ fpc = "edge"
    /\ IF edge_idx > Len(edges)
       THEN /\ has_next_page' = MoreProductPages(page_info)
            /\ after_cursor' = page_info.endCursor
            /\ fpc' = "products"
            /\ UNCHANGED <<variant_skus, v_has_next, v_cursor>>
       ELSE LET node == edges[edge_idx].node
            IN  /\ variant_skus' = AddVariants(<<>>, node.variants.edges)
                /\ v_has_next' = MoreVariantPages(node.variants.pageInfo)
                /\ v_cursor' = node.variants.pageInfo.endCursor
                /\ fpc' = "variants"
                /\ UNCHANGED <<has_next_page, after_cursor>>
    /\ UNCHANGED <<upstream, page_size, vendor_idx, edges, page_info, edge_idx,
                   products_map, requests>>
    /\ UNCHANGED outsideFetch

\* while v_has_next: v_result = execute(_VARIANT_PAGE_QUERY); after the loop
\* products_map[product_id] = {...}
VariantPage ==
    /\ fpc = "variants"
    /\ LET node == edges[edge_idx].node
       IN  IF v_has_next
           THEN LET v_data == VariantPageQuery(node.id, v_cursor).product.variants
                IN  /\ variant_skus' = AddVariants(variant_skus, v_data.edges)
                    /\ v_has_next' = MoreVariantPages(v_data.pageInfo)
                    /\ v_cursor' = v_data.pageInfo.endCursor
                    /\ requests' = requests + 1
                    /\ UNCHANGED <<fpc, edge_idx, products_map>>
           ELSE /\ products_map' =
                      (node.id :> [id |-> node.id, title |-> node.title,
                                   vendor |-> node.vendor, handle |-> node.handle,
                                   variants |-> variant_skus]) @@ products_map
                /\ edge_idx' = edge_idx + 1
                /\ fpc' = "edge"
                /\ UNCHANGED <<variant_skus, v_has_next, v_cursor, requests>>
    /\ UNCHANGED <<upstream, page_size, vendor_idx, has_next_page, after_cursor,
                   edges, page_info>>
    /\ UNCHANGED outsideFetch

InitFetch ==
    /\ InitCacheState
    /\ InitCompareState
    /\ InitLaterState
    /\ upstream \in Upstreams
    /\ page_size \in [products : 1..MaxPageSize, variants : 1..MaxPageSize]
    /\ fpc = "vendor"
    /\ vendor_idx = 1
    /\ has_next_page = FALSE
    /\ after_cursor = 0
    /\ edges = <<>>
    /\ page_info = [hasNextPage |-> FALSE, endCursor |-> 0]
    /\ edge_idx = 1
    /\ variant_skus = <<>>
    /\ v_has_next = FALSE
    /\ v_cursor = 0
    /\ products_map = <<>>
    /\ requests = 0

NextFetch ==
    \/ NextVendor
    \/ ProductsPage
    \/ ProductEdge
    \/ VariantPage

\* the function runs on one thread, which takes its next step while it has one
SpecFetch == InitFetch /\ [][NextFetch]_vars /\ WF_vars(NextFetch)

-----------------------------------------------------------------------------
(* batch_update_bins_with_regex.  The patterns are those made of an optional
   leading "^" and literal characters; "(" alone does not compile. *)

\* re.compile(regex_pattern)
RegexCompile(p) ==
    IF "(" \in Range(p)
    THEN [error |-> TRUE, anchored |-> FALSE, lit |-> <<>>]
    ELSE IF p # <<>> /\ Head(p) = "^"
    THEN [error |-> FALSE, anchored |-> TRUE, lit |-> Tail(p)]
    ELSE [error |-> FALSE, anchored |-> FALSE, lit |-> p]

\* the pattern matches s at position i (1 .. Len(s) + 1)
MatchAt(re, s, i) ==
    /\ re.anchored => i = 1
    /\ i + Len(re.lit) - 1 <= Len(s)
    /\ SubSeq(s, i, i + Len(re.lit) - 1) = re.lit

\* compiled_regex.search(s)
RegexSearch(re, s) == \E i \in 1..(Len(s) + 1) : MatchAt(re, s, i)

\* compiled_regex.sub(repl, s): every non-overlapping match, left to right
RECURSIVE RegexSubFrom(_, _, _, _)
RegexSubFrom(re, repl, s, i) ==
    IF i > Len(s) + 1 THEN <<>>
    ELSE IF MatchAt(re, s, i)
    THEN IF re.lit = <<>>
         THEN repl \o (IF i <= Len(s) THEN <<s[i]>> ELSE <<>>)
                   \o RegexSubFrom(re, repl, s, i + 1)
         ELSE repl \o (IF i + Len(re.lit) > Len(s) THEN <<>>
                       ELSE RegexSubFrom(re, repl, s, i + Len(re.lit)))
    ELSE IF i <= Len(s) THEN <<s[i]>> \o RegexSubFrom(re, repl, s, i + 1)
    ELSE <<>>

RegexSub(re, repl, s) == RegexSubFrom(re, repl, s, 1)

\* the test without "current_bin and"
BinMatches_AnyBin(re, current_bin) == RegexSearch(re, current_bin)

\* if current_bin and compiled_regex.search(current_bin)
BinMatches(re, current_bin) == current_bin # <<>> /\ RegexSearch(re, current_bin)

\* the loop over shipmondo_items.items()
RECURSIVE MatchingItems(_, _, _)
MatchingItems(items, re, repl) ==
    IF items = <<>> THEN <<>>
    ELSE LET item_data == Head(items)
             current_bin == item_data.bin
         IN  (IF BinMatches(re, current_bin)
              THEN <<[sku |-> item_data.sku,
                      item_id |-> item_data.id,
                      current_bin |-> current_bin,
                      new_bin |-> RegexSub(re, repl, current_bin),
                      name |-> item_data.name]>>
              ELSE <<>>)
             \o MatchingItems(Tail(items), re, repl)

batch_update_bins_with_regex(shipmondo_items, pattern, repl) ==
    LET compiled_regex == RegexCompile(pattern)
    IN  IF compiled_regex.error
        THEN [error |-> TRUE, matching_items |-> <<>>, count |-> 0]
        ELSE LET matching_items == MatchingItems(shipmondo_items, compiled_regex, repl)
             IN  [error |-> FALSE,
                  matching_items |-> matching_items,
                  count |-> Len(matching_items)]

Str_A1_01 == <<"A", "1", "-", "0", "1">>
Str_A1_02 == <<"A", "1", "-", "0", "2">>
Str_B2_01 == <<"B", "2", "-", "0", "1">>
Str_C3 == <<"C", "3">>

Bins == {<<>>, Str_A1_01, Str_A1_02, Str_B2_01}

\* the patterns a request may carry: stripped and not empty
Patterns == {<<"^", "A", "1">>, <<"0", "1">>, <<"-", "0">>, <<"^">>, <<"(">>}

Replacements == {Str_C3, <<>>}

\* item maps of up to MaxItems items, keyed by SKU
ItemMaps ==
    UNION {{[i \in 1..n |-> [sku |-> <<"s", Digits[i]>>, id |-> i,
                              bin |-> b[i], name |-> "item"]] :
            b \in [1..n -> Bins]} : n \in 0..MaxItems}

InitBins ==
    /\ InitCacheState
    /\ InitCompareState
    /\ InitFetchState
    /\ InitParseState
    /\ InitPriceState
    /\ InitWriteState
    /\ InitResolveState
    /\ InitPauseState
    /\ InitResumeState
    /\ InitSyncState
    /\ InitImagesState
    /\ bin_items \in ItemMaps
    /\ regex_pattern \in Patterns
    /\ replacement \in Replacements
    /\ match_result = [error |-> FALSE, matching_items |-> <<>>, count |-> 0]
    /\ bin_requests = <<>>
    /\ bpc = "start"

\* preview_batch_update: result = batch_update_bins_with_regex(...)
PreviewBatchUpdate ==
    /\ bpc = "start"
    /\ match_result' =
          batch_update_bins_with_regex(bin_items, regex_pattern, replacement)
    /\ bpc' = "done"
    /\ UNCHANGED <<bin_items, regex_pattern, replacement, bin_requests>>
    /\ UNCHANGED outsideBins

\* update_bin_location / clear_bin_location: one PUT and what became of it
BinRequest(item_id, sku, new_bin, success) ==
    [item_id |-> item_id, sku |-> sku, bin |-> new_bin, success |-> success]

\* apply_batch_update: one update_bin_location for each matching item, in
\* order; ok[i] is whether the i-th request went through
ApplyRequests(matching_items, ok) ==
    [i \in DOMAIN matching_items |->
        BinRequest(matching_items[i].item_id, matching_items[i].sku,
                   matching_items[i].new_bin, ok[i])]

\* shipmondo_cache["items"][sku]["bin"] = new_bin
SetCachedBin(items, sku, new_bin) ==
    [i \in DOMAIN items |->
        IF items[i].sku = sku THEN [items[i] EXCEPT !.bin = new_bin] ELSE items[i]]

\* the loop of apply_batch_update_route over match_result["matching_items"]
RECURSIVE CacheAfterApply(_, _)
CacheAfterApply(items, matching_items) ==
    IF matching_items = <<>> THEN items
    ELSE CacheAfterApply(SetCachedBin(items, Head(matching_items).sku,
                                      Head(matching_items).new_bin),
                         Tail(matching_items))

\* apply_batch_update_route
ApplyBatchUpdate ==
    /\ bpc = "start"
    /\ LET res == batch_update_bins_with_regex(bin_items, regex_pattern, replacement)
       IN  /\ match_result' = res
           /\ IF res.error \/ res.count = 0
              THEN UNCHANGED <<bin_items, bin_requests>>
              ELSE \E ok \in [DOMAIN res.matching_items -> BOOLEAN] :
                      /\ bin_requests' = ApplyRequests(res.matching_items, ok)
                      /\ bin_items' = CacheAfterApply(bin_items, res.matching_items)
    /\ bpc' = "done"
    /\ UNCHANGED <<regex_pattern, replacement>>
    /\ UNCHANGED outsideBins

\* the loop of cleanup_sold_out_bins over the cached items: the requests made
\* so far and the cache
RECURSIVE CleanupLoop(_, _, _, _, _)
CleanupLoop(items, i, cleanup_set, ok, reqs) ==
    IF i > Len(items) THEN [items |-> items, requests |-> reqs]
    ELSE IF items[i].sku \in cleanup_set /\ items[i].bin # <<>>
    THEN CleanupLoop(IF ok[i] THEN SetCachedBin(items, items[i].sku, <<>>) ELSE items,
                     i + 1, cleanup_set, ok,
                     Append(reqs, BinRequest(items[i].id, items[i].sku, <<>>, ok[i])))
    ELSE CleanupLoop(items, i + 1, cleanup_set, ok, reqs)

\* cleanup_sold_out_bins, for the SKUs _fetch_cleanup_variants returned
CleanupSoldOutBins ==
    /\ bpc = "start"
    /\ \E cleanup_set \in SUBSET {bin_items[i].sku : i \in DOMAIN bin_items},
          ok \in [DOMAIN bin_items -> BOOLEAN] :
          IF cleanup_set = {}
          THEN UNCHANGED <<bin_items, bin_requests>>
          ELSE LET end == CleanupLoop(bin_items, 1, cleanup_set, ok, <<>>)
               IN  /\ bin_items' = end.items
                   /\ bin_requests' = end.requests
    /\ bpc' = "done"
    /\ UNCHANGED <<regex_pattern, replacement, match_result>>
    /\ UNCHANGED outsideBins

\* the SKUs a scanner may send: those of the cache and one it does not have
ScannedSkus == {<<"s", Digits[i]>> : i \in 1..(MaxItems + 1)}

\* assign_bin
AssignBin ==
    /\ bpc = "start"
    /\ \E sku \in ScannedSkus, bin_code \in Bins \ {<<>>}, success \in BOOLEAN :
          LET found == {i \in DOMAIN bin_items : bin_items[i].sku = sku}
          IN  IF found = {}
              THEN UNCHANGED <<bin_items, bin_requests>>
              ELSE LET item_data == bin_items[CHOOSE i \in found : TRUE]
                   IN  /\ bin_requests' =
                             <<BinRequest(item_data.id, sku, bin_code, success)>>
                       /\ bin_items' = IF success
                                       THEN SetCachedBin(bin_items, sku, bin_code)
                                       ELSE bin_items
    /\ bpc' = "done"
    /\ UNCHANGED <<regex_pattern, replacement, match_result>>
    /\ UNCHANGED outsideBins

NextBins ==
    \/ PreviewBatchUpdate
    \/ ApplyBatchUpdate
    \/ CleanupSoldOutBins
    \/ AssignBin

SpecBins == InitBins /\ [][NextBins]_vars

-----------------------------------------------------------------------------
(* parse_vendor_csv from the reader on: csv.DictReader, the cleaning of a
   row, the SKU test and the Size field *)

DigitChars == <<"0", "1", "2", "3", "4", "5", "6", "7", "8", "9">>

\* f"{n}"
RECURSIVE DecimalText(_)
DecimalText(n) ==
    IF n < 10 THEN <<DigitChars[n + 1]>>
    ELSE DecimalText(n \div 10) \o <<DigitChars[(n % 10) + 1]>>

\* str.upper() on the letters a size ends with
Upper(c) == IF c = "s" THEN "S" ELSE IF c = "l" THEN "L" ELSE IF c = "x" THEN "X" ELSE c

\* a character as the pattern sees it without re.IGNORECASE
Fold_CaseSensitive(c) == c

\* a character as the pattern sees it under re.IGNORECASE
Fold(c) == Upper(c)

\* re.match(r'^(X{2,})(S|L)$', size, re.IGNORECASE), then the f-string
_normalize_size(size) ==
    LET n == Len(size) - 1
    IN  IF /\ n >= 2
           /\ \A i \in 1..n : Fold(size[i]) = "X"
           /\ Fold(size[n + 1]) \in {"S", "L"}
        THEN DecimalText(n) \o <<"X", Upper(size[n + 1])>>
        ELSE size

\* raw_size = row.get("Size", "").strip(); the part before the first "/"
SizeField(raw) ==
    LET raw_size == Strip(raw)
    IN  IF "/" \in Range(raw_size)
        THEN _normalize_size(Strip(Split(raw_size, "/")[1]))
        ELSE _normalize_size(raw_size)

\* csv.DictReader: a line longer than the header leaves a list under the
\* key None, and (v or "").strip() has no strip on a list
RowRaises(fieldnames, fields) == Len(fields) > Len(fieldnames)

\* the row dict after {(k or "").strip(): (v or "").strip()}: a column the
\* line does not reach is None, hence ""
CleanRow(fieldnames, fields) ==
    [k \in Range(fieldnames) |->
        LET i == CHOOSE j \in DOMAIN fieldnames : fieldnames[j] = k
        IN  IF i <= Len(fields) THEN Strip(fields[i]) ELSE <<>>]

\* row.get(key, "")
Get(row, key) == IF key \in DOMAIN row THEN row[key] ELSE <<>>

\* a short line skipped as well
RowSkipped_Short(fieldnames, fields) ==
    \/ Get(CleanRow(fieldnames, fields), "SKU") = <<>>
    \/ Len(fields) < Len(fieldnames)

\* DictReader passes over a blank line; if not sku: continue
RowSkipped(fieldnames, fields) ==
    \/ fields = <<>>
    \/ Get(CleanRow(fieldnames, fields), "SKU") = <<>>

\* products.append({...})
VendorRow(row) ==
    [size |-> SizeField(Get(row, "Size"))]
    @@ ParseRow([SKU |-> Get(row, "SKU"), EAN13 |-> Get(row, "EAN13")])

\* the loop over the reader; an exception leaves the function with nothing
RECURSIVE ParseLines(_, _)
ParseLines(fieldnames, lines) ==
    IF lines = <<>> THEN [raised |-> FALSE, products |-> <<>>]
    ELSE LET fields == Head(lines)
             rest == ParseLines(fieldnames, Tail(lines))
         IN  IF fields = <<>> THEN rest
             ELSE IF RowRaises(fieldnames, fields)
             THEN [raised |-> TRUE, products |-> <<>>]
             ELSE IF rest.raised THEN rest
             ELSE IF RowSkipped(fieldnames, fields) THEN rest
             ELSE [raised |-> FALSE,
                   products |-> <<VendorRow(CleanRow(fieldnames, fields))>>
                                \o rest.products]

FullHeader == <<"SKU", "EAN13", "Size">>
Headers == {FullHeader, <<"EAN13", "Size", "SKU">>}

SizeChars == {"X", "x", "L", "l", "S", "M", "/", " "}

Str_XXL == <<"X", "X", "L">>
Str_XXXL == <<"X", "X", "X", "L">>
Str_XL_Regular == <<"X", "L", "/", "R", "e", "g", "u", "l", "a", "r">>

\* Size fields: every string of up to MaxSizeLen characters, and a long one
SizeStrings == SeqsUpTo(SizeChars, MaxSizeLen) \cup {Str_XL_Regular}

\* data lines: whole, blank, short, with an empty SKU, too long
CsvLines ==
    {<<SkuA1, Ean1, Str_XXL>>,
     <<Ean1, <<"M">>, SkuA2>>,
     <<<<" ">>, Ean1, <<"M">>>>,
     <<SkuD>>,
     <<<<" ">>, Ean1>>,
     <<>>,
     <<SkuA1, Ean1, <<"M">>, <<"x">>>>}

InitParse ==
    /\ InitCacheState
    /\ InitCompareState
    /\ InitFetchState
    /\ InitBinsState
    /\ InitPriceState
    /\ InitWriteState
    /\ InitResolveState
    /\ InitPauseState
    /\ InitResumeState
    /\ InitSyncState
    /\ InitImagesState
    /\ \/ /\ csv_fieldnames = FullHeader
          /\ csv_lines \in {<<<<SkuA1, Ean1, size>>>> : size \in SizeStrings}
       \/ /\ csv_fieldnames \in Headers
          /\ csv_lines \in SeqsUpTo(CsvLines, MaxLines)
    /\ parse_result = [raised |-> FALSE, products |-> <<>>]
    /\ ppc = "start"

\* vendor_products = parse_vendor_csv(csv_content)
ParseCall ==
    /\ ppc = "start"
    /\ parse_result' = ParseLines(csv_fieldnames, csv_lines)
    /\ ppc' = "done"
    /\ UNCHANGED <<csv_fieldnames, csv_lines>>
    /\ UNCHANGED outsideParse

NextParse == ParseCall

SpecParse == InitParse /\ [][NextParse]_vars

-----------------------------------------------------------------------------
(* _eur_to_dkk_retail.  A price of eur_cents EUR cents is eur_cents * 7.5
   oere; amounts of DKK are counted in half oere, 200 to the krone, so that
   the product is a whole number. *)

\* eur_price * EUR_TO_DKK, in half oere
EurToDkk(cents) == cents * 15

\* n DKK in half oere
Dkk(n) == n * 200

\* math.ceil(a / b)
Ceil(a, b) == -((-a) \div b)

\* f"{n:.2f}" of a whole number
FormatPrice(n) ==
    (IF n < 0 THEN <<"-">> \o DecimalText(-n) ELSE DecimalText(n))
    \o <<".", "0", "0">>

_eur_to_dkk_retail(cents) ==
    LET dkk == EurToDkk(cents)
        rounded == IF dkk <= Dkk(100) THEN Ceil(dkk, Dkk(10)) * 10
                   ELSE IF dkk <= Dkk(800) THEN Ceil(dkk, Dkk(50)) * 50
                   ELSE Ceil(dkk, Dkk(100)) * 100
    IN  FormatPrice(rounded - 1)

\* round(float(v["price"]) * EUR_TO_DKK, 2), in oere.  An amount of whole oere
\* is kept; an amount that ends on half an oere goes to one of its two
\* neighbours, whichever the binary floating-point value lies nearer to.
UnitCosts(cents) ==
    LET dkk == EurToDkk(cents)
    IN  IF dkk % 2 = 0 THEN {dkk \div 2} ELSE {(dkk - 1) \div 2, (dkk + 1) \div 2}

InitPrice ==
    /\ InitCacheState
    /\ InitCompareState
    /\ InitFetchState
    /\ InitBinsState
    /\ InitParseState
    /\ InitWriteState
    /\ InitResolveState
    /\ InitPauseState
    /\ InitResumeState
    /\ InitSyncState
    /\ InitImagesState
    /\ eur_cents \in 0..MaxPriceCents
    /\ retail_price = <<>>
    /\ unit_cost = 0
    /\ qpc = "start"

\* The variant input of a row with a price on a product without a positive
\* price: inventoryItem.cost, then
\* variant_input["price"] = _eur_to_dkk_retail(float(v["price"]))
DerivePrice ==
    /\ qpc = "start"
    /\ unit_cost' \in UnitCosts(eur_cents)
    /\ retail_price' = _eur_to_dkk_retail(eur_cents)
    /\ qpc' = "done"
    /\ UNCHANGED eur_cents
    /\ UNCHANGED outsidePrice

NextPrice == DerivePrice

SpecPrice == InitPrice /\ [][NextPrice]_vars

-----------------------------------------------------------------------------
(* add_variants_to_shopify_product.  Option values are named by their display
   name, a sequence of characters; the id of an option value stands for its
   name.  The rows carry a size and a colour and no length letter in the SKU,
   so include_length is false. *)

OptSize == "Stoerrelse"     \* the option "Størrelse"
OptColor == "Farve"
NoVariant == ""             \* existing_variants.get(combo_key) is None
NoPrice == <<>>             \* variant_input has no "price"

\* the last variant's price instead of the first
ExistingPriceOf_Last(price_edges) == price_edges[Len(price_edges)].price

\* existing_price = price_edges[0]["node"].get("price")
ExistingPriceOf(price_edges) == price_edges[1].price

\* float(existing_price) > 0, of a price text that is not negative
PriceIsPositive(text) ==
    \E i \in DOMAIN text : text[i] \in {"1", "2", "3", "4", "5", "6", "7", "8", "9"}

\* existing_variants[combo] = {...}, in the order of the edges
ExistingVariantsOf(price_edges) ==
    [i \in DOMAIN price_edges |->
        [combo |-> {so \in price_edges[i].selectedOptions : so[1] # "Title"},
         id |-> price_edges[i].id,
         sku |-> price_edges[i].sku]]

\* no variant is ever found
ExistingFor_None(ev, combo_key) == NoVariant

\* existing_variants.get(combo_key): the dict keeps the last variant of a combo
ExistingFor(ev, combo_key) ==
    LET hits == {i \in DOMAIN ev : ev[i].combo = combo_key}
    IN  IF hits = {} THEN NoVariant
        ELSE ev[CHOOSE i \in hits : \A j \in hits : j <= i].id

\* option_info[opt["name"]] = {...}
OptionInfoOf(options) ==
    [name \in {options[i].name : i \in DOMAIN options} |->
        LET opt == options[CHOOSE i \in DOMAIN options : options[i].name = name]
        IN  [linked |-> opt.linked, values |-> opt.values]]

\* the size of a row as the writer reads it
RowSize(v) == SizeField(v.size)

\* _collect_needed_values, one option
NeededValues(rows, opt_name) ==
    IF opt_name = OptSize
    THEN {RowSize(rows[i]) : i \in DOMAIN rows} \ {<<>>}
    ELSE {Strip(rows[i].color) : i \in DOMAIN rows} \ {<<>>}

\* the keys of needed_values, in insertion order
NeededOptions(rows) ==
    SelectSeq(<<OptSize, OptColor>>, LAMBDA o : NeededValues(rows, o) # {})

\* missing = [val for val in values if val not in info["values_by_name"]]
MissingValues(info, values) == values \ info.values

\* every missing value sent, resolved or not
ValuesToAdd_Unresolved(info, missing, metas) == missing

\* values_to_add: for a linked option the values _fetch_metaobject_gids
\* resolved, which needs an existing value to tell the metaobject type
ValuesToAdd(info, missing, metas) ==
    IF info.linked
    THEN IF info.values = {} THEN {} ELSE missing \cap metas
    ELSE missing

\* _add_option
AddOption(oi, option_name, value) ==
    IF option_name \notin DOMAIN oi
    THEN {[optionName |-> option_name, name |-> value, by |-> "name"]}
    ELSE IF value \notin oi[option_name].values THEN {}
    ELSE {[optionName |-> option_name, name |-> value, by |-> "id"]}

OptionValuesOf(oi, v) ==
    (IF RowSize(v) # <<>> THEN AddOption(oi, OptSize, RowSize(v)) ELSE {})
    \cup (IF v.color # <<>> THEN AddOption(oi, OptColor, v.color) ELSE {})

\* combo_key = tuple(sorted(combo_parts))
ComboKey(option_values) == {<<ov.optionName, ov.name>> : ov \in option_values}

\* the retail price of a variant input
RowPrice(ep, v) ==
    IF PriceIsPositive(ep) THEN ep
    ELSE IF v.has_price THEN _eur_to_dkk_retail(v.price_cents)
    ELSE NoPrice

VariantInput(oi, ep, v) ==
    [sku |-> v.sku, price |-> RowPrice(ep, v), optionValues |-> OptionValuesOf(oi, v)]

\* the split into variants_to_update (existing = TRUE) and variants_to_create
RECURSIVE Route(_, _, _, _, _)
Route(oi, ep, ev, rows, existing) ==
    IF rows = <<>> THEN <<>>
    ELSE LET vi == VariantInput(oi, ep, Head(rows))
             id == ExistingFor(ev, ComboKey(vi.optionValues))
         IN  (IF (id # NoVariant) = existing THEN <<[id |-> id, input |-> vi]>> ELSE <<>>)
             \o Route(oi, ep, ev, Tail(rows), existing)

\* the variants a mutation reports: {"id", "sku", "title"}
Reported(entries) ==
    [i \in DOMAIN entries |->
        [id |-> IF entries[i].id = NoVariant THEN "new" ELSE entries[i].id,
         sku |-> entries[i].input.sku]]

\* errors appended nowhere
ExtendErrors_Drop(errs, new) == errs

\* all_errors.extend(...)
ExtendErrors(errs, new) == errs \o new

\* an API call and how it ended
ApiCall(kind, outcome) ==
    [kind |-> kind, outcome |-> outcome, option |-> "", linked |-> FALSE,
     values |-> {}, variants |-> <<>>, written |-> <<>>, errors |-> <<>>]

ReturnedAt(at, created, errors) ==
    [status |-> "returned", at |-> at, created |-> created, errors |-> errors]

\* the exception leaves the function
RaisedOut(at) == [status |-> "raised", at |-> at, created |-> <<>>, errors |-> <<>>]

SizeM == <<"M">>
ColorR == <<"R">>
ColorB == <<"B">>

\* the SKU of a placeholder variant, and the SKU of a variant in use
NoSku == <<>>
SkuInUse == <<"o", "1">>

\* a product without options of its own: the Title option and its one variant
DefaultProduct(sku) ==
    [variants |-> <<[id |-> "v0", sku |-> sku, price |-> FormatPrice(0),
                     selectedOptions |-> {<<"Title", <<"D">>>>}]>>,
     options |-> <<[name |-> "Title", linked |-> FALSE, values |-> {<<"D">>}]>>]

\* a product with a size and a colour option and one or two variants
ConfiguredProduct(linked, kr, two, sku) ==
    [variants |->
        <<[id |-> "v1", sku |-> sku, price |-> FormatPrice(kr),
           selectedOptions |-> {<<OptSize, SizeM>>, <<OptColor, ColorR>>}]>>
        \o (IF two
            THEN <<[id |-> "v2", sku |-> sku, price |-> FormatPrice(199),
                    selectedOptions |-> {<<OptSize, <<"2", "X", "L">>>>,
                                         <<OptColor, ColorR>>}]>>
            ELSE <<>>),
     options |->
        <<[name |-> OptSize, linked |-> FALSE,
           values |-> IF two THEN {SizeM, <<"2", "X", "L">>} ELSE {SizeM}],
          [name |-> OptColor, linked |-> linked, values |-> {ColorR}]>>]

ShopProducts ==
    {DefaultProduct(sku) : sku \in {NoSku, SkuInUse}}
    \cup {ConfiguredProduct(linked, kr, two, sku) :
            linked \in BOOLEAN, kr \in {0, 199}, two \in BOOLEAN,
            sku \in {NoSku, SkuInUse}}

RowKinds ==
    {[size |-> SizeM, color |-> ColorR, has_price |-> TRUE, price_cents |-> 1040],
     [size |-> Str_XXL, color |-> ColorR, has_price |-> TRUE, price_cents |-> 1040],
     [size |-> SizeM, color |-> ColorB, has_price |-> TRUE, price_cents |-> 5600],
     [size |-> SizeM, color |-> ColorB, has_price |-> FALSE, price_cents |-> 0],
     [size |-> <<>>, color |-> <<>>, has_price |-> TRUE, price_cents |-> 1040]}

\* the rows of one call, each with its own SKU
WriteRows ==
    UNION {{[i \in 1..n |-> [sku |-> <<"s", Digits[i]>>] @@ r[i]] :
            r \in [1..n -> RowKinds]} : n \in 1..MaxWriteRows}

InitWrite ==
    /\ InitCacheState
    /\ InitCompareState
    /\ InitFetchState
    /\ InitBinsState
    /\ InitParseState
    /\ InitPriceState
    /\ InitResolveState
    /\ InitPauseState
    /\ InitResumeState
    /\ InitSyncState
    /\ InitImagesState
    /\ shop_product \in ShopProducts
    /\ metaobjects \in {{}, {ColorB}}
    /\ variants_data \in WriteRows
    /\ wpc = "start"
    /\ existing_price = <<>>
    /\ existing_variants = <<>>
    /\ option_info = <<>>
    /\ opt_queue = <<>>
    /\ variants_to_create = <<>>
    /\ variants_to_update = <<>>
    /\ all_created = <<>>
    /\ all_errors = <<>>
    /\ write_result = Pending
    /\ api_calls = <<>>

writeInputs == <<shop_product, metaobjects, variants_data>>
writeLookups == <<existing_price, existing_variants, option_info, opt_queue>>
writeRouting == <<variants_to_create, variants_to_update>>

\* locations(first: 1)
LocationQuery ==
    /\ wpc = "start"
    /\ \E outcome \in {"ok", "empty", "raise"} :
          /\ api_calls' = Append(api_calls, ApiCall("locations", outcome))
          /\ wpc' = IF outcome = "ok" THEN "info" ELSE "done"
          /\ write_result' =
                IF outcome = "ok" THEN write_result
                ELSE IF outcome = "empty"
                THEN ReturnedAt("location", <<>>,
                              <<"No inventory locations found in Shopify">>)
                ELSE RaisedOut("location")
    /\ UNCHANGED <<writeInputs, writeLookups, writeRouting, all_created, all_errors>>
    /\ UNCHANGED outsideWrite

\* productInfo, then existing_price, existing_variants, option_info and
\* needed_values
ProductInfoQuery ==
    /\ wpc = "info"
    /\ \E outcome \in {"ok", "raise"} :
          /\ api_calls' = Append(api_calls, ApiCall("productInfo", outcome))
          /\ IF outcome = "raise"
             THEN /\ wpc' = "done"
                  /\ write_result' = RaisedOut("productInfo")
                  /\ UNCHANGED writeLookups
             ELSE /\ wpc' = "options"
                  /\ existing_price' = ExistingPriceOf(shop_product.variants)
                  /\ existing_variants' = ExistingVariantsOf(shop_product.variants)
                  /\ option_info' = OptionInfoOf(shop_product.options)
                  /\ opt_queue' = NeededOptions(variants_data)
                  /\ UNCHANGED write_result
    /\ UNCHANGED <<writeInputs, writeRouting, all_created, all_errors>>
    /\ UNCHANGED outsideWrite

\* one turn of `for opt_name, values in needed_values.items()` that sends
\* nothing: the option is not on the product, or no value is missing, or no
\* missing value of a linked option could be resolved
OptionValuesSkip ==
    /\ wpc = "options"
    /\ opt_queue # <<>>
    /\ LET opt_name == Head(opt_queue)
       IN  \/ opt_name \notin DOMAIN option_info
           \/ /\ opt_name \in DOMAIN option_info
              /\ LET info == option_info[opt_name]
                     missing == MissingValues(info, NeededValues(variants_data, opt_name))
                 IN  ValuesToAdd(info, missing, metaobjects) = {}
    /\ opt_queue' = Tail(opt_queue)
    /\ UNCHANGED <<writeInputs, existing_price, existing_variants, option_info,
                   writeRouting, all_created, all_errors, write_result, api_calls, wpc>>
    /\ UNCHANGED outsideWrite

\* _fetch_metaobject_gids raises: nothing catches it
MetaobjectQueryRaises ==
    /\ wpc = "options"
    /\ opt_queue # <<>>
    /\ Head(opt_queue) \in DOMAIN option_info
    /\ LET info == option_info[Head(opt_queue)]
       IN  /\ info.linked
           /\ info.values # {}
           /\ MissingValues(info, NeededValues(variants_data, Head(opt_queue))) # {}
    /\ api_calls' = Append(api_calls, ApiCall("metaobjects", "raise"))
    /\ wpc' = "done"
    /\ write_result' = RaisedOut("options")
    /\ UNCHANGED <<writeInputs, writeLookups, writeRouting, all_created, all_errors>>
    /\ UNCHANGED outsideWrite

\* productOptionUpdate with optionValuesToAdd
OptionValuesAdd ==
    /\ wpc = "options"
    /\ opt_queue # <<>>
    /\ Head(opt_queue) \in DOMAIN option_info
    /\ LET opt_name == Head(opt_queue)
           info == option_info[opt_name]
           missing == MissingValues(info, NeededValues(variants_data, opt_name))
           values_to_add == ValuesToAdd(info, missing, metaobjects)
       IN  /\ values_to_add # {}
           /\ \E outcome \in {"ok", "user_errors", "raise"} :
                 /\ api_calls' =
                       Append(api_calls,
                              [ApiCall("productOptionUpdate", outcome) EXCEPT
                                  !.option = opt_name,
                                  !.linked = info.linked,
                                  !.values = values_to_add])
                 /\ option_info' =
                       IF outcome = "ok"
                       THEN [option_info EXCEPT ![opt_name].values = @ \cup values_to_add]
                       ELSE option_info
                 /\ IF outcome = "raise"
                    THEN /\ wpc' = "done"
                         /\ write_result' =
                               ReturnedAt("options", <<>>,
                                        <<"Failed to create option values">>)
                         /\ UNCHANGED opt_queue
                    ELSE /\ opt_queue' = Tail(opt_queue)
                         /\ UNCHANGED <<wpc, write_result>>
    /\ UNCHANGED <<writeInputs, existing_price, existing_variants, writeRouting,
                   all_created, all_errors>>
    /\ UNCHANGED outsideWrite

\* the variant inputs and the split into seed variants and new ones
BuildVariantInputs ==
    /\ wpc = "options"
    /\ opt_queue = <<>>
    /\ variants_to_update' =
          Route(option_info, existing_price, existing_variants, variants_data, TRUE)
    /\ variants_to_create' =
          Route(option_info, existing_price, existing_variants, variants_data, FALSE)
    /\ wpc' = "update"
    /\ UNCHANGED <<writeInputs, writeLookups, all_created, all_errors, write_result,
                   api_calls>>
    /\ UNCHANGED outsideWrite

\* what a bulk mutation may answer for the variants sent
BulkReplies(entries) ==
    {[outcome |-> "ok", written |-> Reported(entries), errors |-> <<>>],
     [outcome |-> "user_errors", written |-> Reported(entries),
      errors |-> <<"variants: user error">>],
     [outcome |-> "user_errors", written |-> <<>>,
      errors |-> <<"variants: user error">>],
     [outcome |-> "raise", written |-> <<>>, errors |-> <<>>]}

\* productVariantsBulkUpdate of the seed variants
UpdateSeedVariants ==
    /\ wpc = "update"
    /\ IF variants_to_update = <<>>
       THEN UNCHANGED <<all_created, all_errors, api_calls>>
       ELSE \E reply \in BulkReplies(variants_to_update) :
               /\ api_calls' =
                     Append(api_calls,
                            [ApiCall("productVariantsBulkUpdate", reply.outcome) EXCEPT
                                !.variants = variants_to_update,
                                !.written = reply.written,
                                !.errors = reply.errors])
               /\ IF reply.outcome = "raise"
                  THEN /\ all_errors' =
                             Append(all_errors, "Failed to update seed variant(s)")
                       /\ UNCHANGED all_created
                  ELSE /\ all_errors' = ExtendErrors(all_errors, reply.errors)
                       /\ all_created' = all_created \o reply.written
    /\ wpc' = "create"
    /\ UNCHANGED <<writeInputs, writeLookups, writeRouting, write_result>>
    /\ UNCHANGED outsideWrite

\* productVariantsBulkCreate of the new variants
BulkCreate ==
    /\ wpc = "create"
    /\ IF variants_to_create = <<>>
       THEN /\ wpc' = "images_no_create"
            /\ UNCHANGED <<all_created, all_errors, api_calls, write_result>>
       ELSE \E reply \in BulkReplies(variants_to_create) :
               /\ api_calls' =
                     Append(api_calls,
                            [ApiCall("productVariantsBulkCreate", reply.outcome) EXCEPT
                                !.variants = variants_to_create,
                                !.written = reply.written,
                                !.errors = reply.errors])
               /\ IF reply.outcome = "raise"
                  THEN /\ all_errors' = Append(all_errors, "exception")
                       /\ UNCHANGED all_created
                       /\ wpc' = "done"
                       /\ write_result' = ReturnedAt("except", all_created, all_errors')
                  ELSE /\ all_errors' = ExtendErrors(all_errors, reply.errors)
                       /\ all_created' = all_created \o reply.written
                       /\ wpc' = "images"
                       /\ UNCHANGED write_result
    /\ UNCHANGED <<writeInputs, writeLookups, writeRouting>>
    /\ UNCHANGED outsideWrite

\* _attach_color_images and _reuse_existing_color_images inside the try of
\* the bulk create
ImagesAfterCreate ==
    /\ wpc = "images"
    /\ IF all_created = <<>>
       THEN /\ write_result' = ReturnedAt("end", all_created, all_errors)
            /\ UNCHANGED <<all_errors, api_calls>>
       ELSE \E outcome \in {"ok", "errors", "raise"} :
               /\ api_calls' = Append(api_calls, ApiCall("images", outcome))
               /\ all_errors' =
                     IF outcome = "ok" THEN all_errors
                     ELSE IF outcome = "errors"
                     THEN ExtendErrors(all_errors, <<"image error">>)
                     ELSE Append(all_errors, "exception")
               /\ write_result' =
                     ReturnedAt(IF outcome = "raise" THEN "except" ELSE "end",
                              all_created, all_errors')
    /\ wpc' = "done"
    /\ UNCHANGED <<writeInputs, writeLookups, writeRouting, all_created>>
    /\ UNCHANGED outsideWrite

\* the same two steps where nothing was to be created: outside any try
ImagesNoCreate ==
    /\ wpc = "images_no_create"
    /\ IF all_created = <<>>
       THEN /\ write_result' = ReturnedAt("no_create", all_created, all_errors)
            /\ UNCHANGED <<all_errors, api_calls>>
       ELSE \E outcome \in {"ok", "errors", "raise"} :
               /\ api_calls' = Append(api_calls, ApiCall("images", outcome))
               /\ all_errors' =
                     IF outcome = "errors"
                     THEN ExtendErrors(all_errors, <<"image error">>)
                     ELSE all_errors
               /\ write_result' =
                     IF outcome = "raise" THEN RaisedOut("images")
                     ELSE ReturnedAt("no_create", all_created, all_errors')
    /\ wpc' = "done"
    /\ UNCHANGED <<writeInputs, writeLookups, writeRouting, all_created>>
    /\ UNCHANGED outsideWrite

NextWrite ==
    \/ LocationQuery
    \/ ProductInfoQuery
    \/ OptionValuesSkip
    \/ MetaobjectQueryRaises
    \/ OptionValuesAdd
    \/ BuildVariantInputs
    \/ UpdateSeedVariants
    \/ BulkCreate
    \/ ImagesAfterCreate
    \/ ImagesNoCreate

SpecWrite == InitWrite /\ [][NextWrite]_vars

-----------------------------------------------------------------------------
(* _resolve_metaobject_values.  The id of a metaobject is its place in the
   listing. *)

\* the display name as the API gives it
DisplayNameOf_Raw(display_name) == display_name

\* dn = (node.get("displayName") or "").strip()
DisplayNameOf(display_name) == Strip(display_name)

\* metaobjects(type, first, after): the edges of one page and its pageInfo
MetaobjectsQuery(list, first, after) ==
    LET last == MinOf2(after + first, Len(list))
    IN  [edges |-> [i \in 1..(last - after) |->
                       [id |-> after + i, displayName |-> list[after + i]]],
         pageInfo |-> [hasNextPage |-> last < Len(list), endCursor |-> last]]

\* for edge in edges: all_mos[dn] = node["id"]
RECURSIVE StoreMetaobjects(_, _)
StoreMetaobjects(mos, mo_edges) ==
    IF mo_edges = <<>> THEN mos
    ELSE StoreMetaobjects(
            (DisplayNameOf(Head(mo_edges).displayName) :> Head(mo_edges).id) @@ mos,
            Tail(mo_edges))

\* resolved and missing, in the order of display_names
Partition(mos, names) ==
    [resolved |-> [n \in {names[i] : i \in DOMAIN names} \cap DOMAIN mos |-> mos[n]],
     missing |-> SelectSeq(names, LAMBDA n : n \notin DOMAIN mos)]

\* display names the shop may hold: padded, and in either case
MetaobjectNames == {ColorR, ColorR \o <<" ">>, ColorB}

\* names a caller asks for
RequestedNames == {ColorR, <<"r">>, ColorB}

InitResolve ==
    /\ InitCacheState
    /\ InitCompareState
    /\ InitFetchState
    /\ InitBinsState
    /\ InitParseState
    /\ InitPriceState
    /\ InitWriteState
    /\ InitPauseState
    /\ InitResumeState
    /\ InitSyncState
    /\ InitImagesState
    /\ metaobject_list \in SeqsUpTo(MetaobjectNames, MaxMetaobjects)
    /\ mo_page_size \in 1..MaxPageSize
    /\ display_names \in SeqsUpTo(RequestedNames, MaxNames) \ {<<>>}
    /\ mo_after = 0
    /\ all_mos = <<>>
    /\ resolution = [resolved |-> <<>>, missing |-> <<>>]
    /\ rpc = "list"

\* one turn of the while loop: a page, its edges, the next cursor
MetaobjectsPage ==
    /\ rpc = "list"
    /\ LET res == MetaobjectsQuery(metaobject_list, mo_page_size, mo_after)
       IN  /\ all_mos' = StoreMetaobjects(all_mos, res.edges)
           /\ IF res.pageInfo.hasNextPage
              THEN /\ mo_after' = res.pageInfo.endCursor
                   /\ UNCHANGED rpc
              ELSE /\ rpc' = "partition"
                   /\ UNCHANGED mo_after
    /\ UNCHANGED <<metaobject_list, mo_page_size, display_names, resolution>>
    /\ UNCHANGED outsideResolve

\* for name in display_names, and the return
PartitionNames ==
    /\ rpc = "partition"
    /\ resolution' = Partition(all_mos, display_names)
    /\ rpc' = "done"
    /\ UNCHANGED <<metaobject_list, mo_page_size, display_names, mo_after, all_mos>>
    /\ UNCHANGED outsideResolve

NextResolve ==
    \/ MetaobjectsPage
    \/ PartitionNames

SpecResolve == InitResolve /\ [][NextResolve]_vars

-----------------------------------------------------------------------------
(* handle_order: an order is checked and, if need be, paused *)

\* a line item without a variant (a custom item), and the quantities a
\* variant may report
NoVariantItem == [has_variant |-> FALSE, inventoryQuantity |-> 0]
LineItemKinds ==
    {NoVariantItem} \cup {[has_variant |-> TRUE, inventoryQuantity |-> q] : q \in {-1, 0, 2}}

\* not short of stock at nought
Short_AtZero(available_quantity) == available_quantity <= 0

\* if available_quantity < 0: return False
Short(available_quantity) == available_quantity < 0

\* the loop of _check_availability over the line items
RECURSIVE AllAvailable(_)
AllAvailable(items) ==
    IF items = <<>> THEN TRUE
    ELSE IF ~Head(items).has_variant THEN AllAvailable(Tail(items))
    ELSE IF Short(Head(items).inventoryQuantity) THEN FALSE
    ELSE AllAvailable(Tail(items))

\* a request and what became of it
OrderCall(request, ok) == [request |-> request, ok |-> ok]

InitPause ==
    /\ InitCacheState
    /\ InitCompareState
    /\ InitFetchState
    /\ InitBinsState
    /\ InitParseState
    /\ InitPriceState
    /\ InitWriteState
    /\ InitResolveState
    /\ InitResumeState
    /\ InitSyncState
    /\ InitImagesState
    /\ line_items \in SeqsUpTo(LineItemKinds, MaxLineItems)
    /\ order_log = <<>>
    /\ hpc = "check"

\* _check_availability: the order query answers, fails in transport, or has
\* no such order
CheckAvailability ==
    /\ hpc = "check"
    /\ \E reply \in {"order", "transport_error", "not_found"} :
          /\ order_log' = Append(order_log, OrderCall("order", reply = "order"))
          /\ hpc' = IF reply # "order" THEN "raised"
                    ELSE IF AllAvailable(line_items) THEN "returned"
                    ELSE "tag"
    /\ UNCHANGED line_items
    /\ UNCHANGED outsidePause

\* _pause_order: _add_tag_to_order(order_id, "paused"), which raises on a
\* transport error, on a response without tagsAdd and on user errors
AddPausedTag ==
    /\ hpc = "tag"
    /\ \E reply \in {"tags", "transport_error", "no_payload", "user_errors"} :
          /\ order_log' = Append(order_log, OrderCall("tagsAdd", reply = "tags"))
          /\ hpc' = IF reply = "tags" THEN "hold" ELSE "raised"
    /\ UNCHANGED line_items
    /\ UNCHANGED outsidePause

\* _pause_order: pause_order(sid), the PUT with order_status on_hold and
\* raise_for_status
PauseInShipmondo ==
    /\ hpc = "hold"
    /\ \E ok \in BOOLEAN :
          /\ order_log' = Append(order_log, OrderCall("on_hold", ok))
          /\ hpc' = IF ok THEN "returned" ELSE "raised"
    /\ UNCHANGED line_items
    /\ UNCHANGED outsidePause

NextPause ==
    \/ CheckAvailability
    \/ AddPausedTag
    \/ PauseInShipmondo

\* handle_order runs to its end once called
SpecPause == InitPause /\ [][NextPause]_vars /\ WF_vars(NextPause)

-----------------------------------------------------------------------------
(* _resume_orders: paused orders are resumed as stock allows *)

ItemIds == {"item1", "item2"}

\* a line item whose variant has been deleted
DeletedVariantItem == [has_variant |-> FALSE, id |-> "none", currentQuantity |-> 1]

OrderItem(id, quantity) == [has_variant |-> TRUE, id |-> id, currentQuantity |-> quantity]

\* the line items an order may have
OrderLines ==
    {<<OrderItem("item1", 1)>>,
     <<OrderItem("item1", 2)>>,
     <<OrderItem("item1", 1), OrderItem("item2", 1)>>,
     <<DeletedVariantItem, OrderItem("item1", 1), OrderItem("item1", 1)>>}

OrderTags == {{}, {"paused"}, {"Mangler Varer", "other"}}

OpenOrders ==
    UNION {[1..n -> [tags : OrderTags, lineItems : OrderLines]] : n \in 1..MaxOrders}

\* on_hand less reserved, damaged, quality_control and safety_stock, as the
\* shop has it
StockLevels == [ItemIds -> {0, 1, 3}]

\* _update_inventory_cache: every item with a variant is looked up once and
\* lowered by the item's quantity
RECURSIVE UpdatedCache(_, _, _)
UpdatedCache(cache, levels, items) ==
    IF items = <<>> THEN cache
    ELSE LET item == Head(items)
         IN  IF ~item.has_variant THEN UpdatedCache(cache, levels, Tail(items))
             ELSE LET known == IF item.id \in DOMAIN cache THEN cache
                               ELSE (item.id :> levels[item.id]) @@ cache
                  IN  UpdatedCache([known EXCEPT ![item.id] = @ - item.currentQuantity],
                                   levels, Tail(items))

\* _inventory_cache.get(inventory_item_id, 0)
CacheGet(cache, id) == IF id \in DOMAIN cache THEN cache[id] ELSE 0

\* _can_fulfill_order
RECURSIVE _can_fulfill_order(_, _)
_can_fulfill_order(cache, items) ==
    IF items = <<>> THEN TRUE
    ELSE IF ~Head(items).has_variant THEN _can_fulfill_order(cache, Tail(items))
    ELSE IF CacheGet(cache, Head(items).id) < 0 THEN FALSE
    ELSE _can_fulfill_order(cache, Tail(items))

\* every order counts as tagged
TaggedForResume_Any(tags) == TRUE

\* "paused" in order["tags"] or "Mangler Varer" in order["tags"]
TaggedForResume(tags) == "paused" \in tags \/ "Mangler Varer" \in tags

ResumeCall(order, request, outcome) ==
    [order |-> order, request |-> request, outcome |-> outcome]

InitResume ==
    /\ InitCacheState
    /\ InitCompareState
    /\ InitFetchState
    /\ InitBinsState
    /\ InitParseState
    /\ InitPriceState
    /\ InitWriteState
    /\ InitResolveState
    /\ InitPauseState
    /\ InitSyncState
    /\ InitImagesState
    /\ open_orders \in OpenOrders
    /\ stock_levels \in StockLevels
    /\ _inventory_cache = <<>>
    /\ order_idx = 1
    /\ resume_log = <<>>
    /\ spc = "order"

\* for order in orders: _update_inventory_cache(...), where an inventory
\* level query may fail, and the test that follows it
NextOrder ==
    /\ spc = "order"
    /\ IF order_idx > Len(open_orders)
       THEN /\ spc' = "returned"
            /\ UNCHANGED _inventory_cache
       ELSE LET order == open_orders[order_idx]
                cache == UpdatedCache(_inventory_cache, stock_levels, order.lineItems)
            IN  \/ /\ _inventory_cache' = cache
                   /\ spc' = IF /\ _can_fulfill_order(cache, order.lineItems)
                                /\ TaggedForResume(order.tags)
                             THEN "resume" ELSE "skip"
                \/ /\ \E i \in DOMAIN order.lineItems :
                         /\ order.lineItems[i].has_variant
                         /\ order.lineItems[i].id \notin DOMAIN _inventory_cache
                   /\ spc' = "raised"
                   /\ UNCHANGED _inventory_cache
    /\ UNCHANGED <<open_orders, stock_levels, order_idx, resume_log>>
    /\ UNCHANGED outsideResume

\* the order is left as it is
SkipOrder ==
    /\ spc = "skip"
    /\ order_idx' = order_idx + 1
    /\ spc' = "order"
    /\ UNCHANGED <<open_orders, stock_levels, _inventory_cache, resume_log>>
    /\ UNCHANGED outsideResume

\* shipmondo_result = resume_order(...): a result, null, or an HTTP error
ResumeInShipmondo ==
    /\ spc = "resume"
    /\ \E outcome \in {"result", "none", "raise"} :
          /\ resume_log' = Append(resume_log, ResumeCall(order_idx, "open", outcome))
          /\ IF outcome = "result" THEN spc' = "untag" /\ UNCHANGED order_idx
             ELSE IF outcome = "none" THEN spc' = "order" /\ order_idx' = order_idx + 1
             ELSE spc' = "raised" /\ UNCHANGED order_idx
    /\ UNCHANGED <<open_orders, stock_levels, _inventory_cache>>
    /\ UNCHANGED outsideResume

\* the tagsRemove mutation: done, user errors, or a transport error
RemoveTags ==
    /\ spc = "untag"
    /\ \E outcome \in {"removed", "user_errors", "raise"} :
          /\ resume_log' = Append(resume_log, ResumeCall(order_idx, "tagsRemove", outcome))
          /\ IF outcome = "raise" THEN spc' = "raised" /\ UNCHANGED order_idx
             ELSE spc' = "order" /\ order_idx' = order_idx + 1
    /\ UNCHANGED <<open_orders, stock_levels, _inventory_cache>>
    /\ UNCHANGED outsideResume

NextResume ==
    \/ NextOrder
    \/ SkipOrder
    \/ ResumeInShipmondo
    \/ RemoveTags

SpecResume == InitResume /\ [][NextResume]_vars

-----------------------------------------------------------------------------
(* The vendor stock syncs: Frankonia (CSV), Helikon-Tex (SOAP), M-Tac (XML).
   The three scripts share the loop over the product pages; they differ in
   the feed and in what counts as in stock. *)

SyncVendors == {"Frankonia", "Helikon-Tex", "M-Tac"}

\* the key a variant is looked up by: its SKU, for M-Tac its barcode
FeedKey(j) == <<"k", Digits[j]>>

\* str.lower() of the words of the lieferbar column
LowerWord(w) == IF w = "JA" THEN "ja" ELSE w

\* the feed as the script holds it: lieferbar lowered (Frankonia), OnStock
\* (Helikon-Tex), g:stock of the entries with a stock above 1 (M-Tac)
FrankoniaFeed(rows) == [k \in DOMAIN rows |-> LowerWord(rows[k])]
HelikonFeed(stock_list) == stock_list
MTacFeed(entries) == [k \in {x \in DOMAIN entries : entries[x] > 1} |-> entries[k]]

\* feeds over the first two keys: a key may be missing from the feed
PartialMaps(values) ==
    UNION {[keys -> values] : keys \in SUBSET {FeedKey(1), FeedKey(2)}}

Feeds(vendor) ==
    IF vendor = "Frankonia" THEN {FrankoniaFeed(r) : r \in PartialMaps({"JA", "nein"})}
    ELSE IF vendor = "Helikon-Tex" THEN {HelikonFeed(r) : r \in PartialMaps({0, 5})}
    ELSE {MTacFeed(r) : r \in PartialMaps({1, 2})}

\* the feed lists the key as in stock
ListedInStock(vendor, feed, key) ==
    /\ key \in DOMAIN feed
    /\ IF vendor = "Frankonia" THEN feed[key] = "ja"
       ELSE IF vendor = "Helikon-Tex" THEN feed[key] > 0
       ELSE TRUE

\* expected_policy
ExpectedPolicy(vendor, feed, key) ==
    IF ListedInStock(vendor, feed, key) THEN "CONTINUE" ELSE "DENY"

\* a product of n variants, all with the same policy to begin with
SyncProduct(n, policy) ==
    [variants |-> [j \in 1..n |-> [key |-> FeedKey(j), inventoryPolicy |-> policy]]]

ShopCatalogs ==
    UNION {{[k \in 1..n |-> SyncProduct(counts[k], policy)] :
              counts \in [1..n -> 1..MaxSyncVariants], policy \in {"CONTINUE", "DENY"}} :
           n \in 1..MaxSyncProducts}

\* the loop over product_node["variants"]["edges"]: bulk_update_input
RECURSIVE BulkUpdateInput(_, _, _, _)
BulkUpdateInput(vendor, feed, variant_edges, j) ==
    IF j > Len(variant_edges) THEN <<>>
    ELSE LET variant_node == variant_edges[j].node
             expected_policy == ExpectedPolicy(vendor, feed, variant_node.key)
         IN  (IF variant_node.inventoryPolicy # expected_policy
              THEN <<[id |-> j, inventoryPolicy |-> expected_policy]>>
              ELSE <<>>)
             \o BulkUpdateInput(vendor, feed, variant_edges, j + 1)

\* productVariantsBulkUpdate as the shop carries it out
RECURSIVE BulkUpdated(_, _)
BulkUpdated(variants, input) ==
    IF input = <<>> THEN variants
    ELSE BulkUpdated([variants EXCEPT ![Head(input).id].inventoryPolicy =
                                          Head(input).inventoryPolicy],
                     Tail(input))

\* one product of the page: its entry in the log and the catalog after it
VisitProduct(catalog, k, outcome, run) ==
    LET product_node ==
            [catalog[k] EXCEPT !.variants = Connection(@, 0, sync_first.variants)]
        bulk_update_input ==
            BulkUpdateInput(sync_vendor, vendor_feed, product_node.variants.edges, 1)
        reply == IF bulk_update_input = <<>> THEN "none" ELSE outcome
    IN  [entry |-> [run |-> run, product |-> k, before |-> catalog[k].variants,
                    sent |-> bulk_update_input, outcome |-> reply],
         catalog |-> IF reply = "updated"
                     THEN [catalog EXCEPT ![k].variants = BulkUpdated(@, bulk_update_input)]
                     ELSE catalog]

\* for product in products, from the i-th edge of the page on
RECURSIVE VisitPage(_, _, _, _, _, _)
VisitPage(catalog, log, after, n, outcomes, i) ==
    IF i > n THEN [catalog |-> catalog, log |-> log]
    ELSE LET visit == VisitProduct(catalog, after + i, outcomes[i], sync_run)
         IN  VisitPage(visit.catalog, Append(log, visit.entry), after, n, outcomes, i + 1)

\* the entry of a products query that failed
QueryFailed(run) ==
    [run |-> run, product |-> 0, before |-> <<>>, sent |-> <<>>, outcome |-> "query_error"]

InitSync ==
    /\ InitCacheState
    /\ InitCompareState
    /\ InitFetchState
    /\ InitBinsState
    /\ InitParseState
    /\ InitPriceState
    /\ InitWriteState
    /\ InitResolveState
    /\ InitPauseState
    /\ InitResumeState
    /\ InitImagesState
    /\ sync_vendor \in SyncVendors
    /\ vendor_feed \in Feeds(sync_vendor)
    /\ shop_catalog \in ShopCatalogs
    /\ sync_first \in [products : 1..MaxPageSize, variants : 1..MaxPageSize]
    /\ sync_after = 0
    /\ sync_run = 1
    /\ sync_log = <<>>
    /\ ypc = "page"

\* while has_next_page: one products query and the products of its page,
\* each with a bulk update if its first page of variants has a policy to
\* change; the update is carried out, or it is not: it is answered with user
\* errors or raises, and either is printed
SyncPage ==
    /\ ypc = "page"
    /\ LET conn == Connection(shop_catalog, sync_after, sync_first.products)
           n == Len(conn.edges)
       IN  /\ \E outcomes \in [1..n -> {"updated", "not_updated"}] :
                 LET end == VisitPage(shop_catalog, sync_log, sync_after, n, outcomes, 1)
                 IN  /\ shop_catalog' = end.catalog
                     /\ sync_log' = end.log
           /\ sync_after' = conn.pageInfo.endCursor
           /\ ypc' = IF conn.pageInfo.hasNextPage THEN "page" ELSE "ended"
    /\ UNCHANGED <<sync_vendor, vendor_feed, sync_first, sync_run>>
    /\ UNCHANGED outsideSync

\* the products query raises: the error is printed and the loop left
SyncPageFails ==
    /\ ypc = "page"
    /\ sync_log' = Append(sync_log, QueryFailed(sync_run))
    /\ ypc' = "ended"
    /\ UNCHANGED <<sync_vendor, vendor_feed, shop_catalog, sync_first, sync_after,
                   sync_run>>
    /\ UNCHANGED outsideSync

\* the script is run again, against the same feed
SyncAgain ==
    /\ ypc = "ended"
    /\ sync_run = 1
    /\ sync_run' = 2
    /\ sync_after' = 0
    /\ ypc' = "page"
    /\ UNCHANGED <<sync_vendor, vendor_feed, shop_catalog, sync_first, sync_log>>
    /\ UNCHANGED outsideSync

NextSync ==
    \/ SyncPage
    \/ SyncPageFails
    \/ SyncAgain

SpecSync == InitSync /\ [][NextSync]_vars

-----------------------------------------------------------------------------
(* _attach_color_images: images are uploaded and assigned by colour *)

ImageColors == {"red", "blue"}
NoColor == ""
NoMedia == [id |-> <<>>, alt |-> "None"]  \* a null entry of the media list

\* the rows of a call, each with its own SKU, and the variants created of them
ImageRows ==
    UNION {{[i \in 1..n |-> [sku |-> <<"s", Digits[i]>>, color |-> c[i]]] :
              c \in [1..n -> ImageColors \cup {NoColor}]} : n \in 1..MaxImageRows}

CreatedOf(rows) ==
    {[i \in 1..Len(idx) |-> [id |-> <<"gid", rows[idx[i]].sku>>, sku |-> rows[idx[i]].sku]] :
        idx \in {s \in SeqsUpTo(DOMAIN rows, Len(rows)) :
                    \A i, j \in DOMAIN s : i < j => s[i] < s[j]}}

\* the dicts of images a call may be given
ImageUrls ==
    {s \in SeqsUpTo(ImageColors, Cardinality(ImageColors)) :
        \A i, j \in DOMAIN s : i # j => s[i] # s[j]}

\* sku_to_color.get(sku)
RECURSIVE sku_to_color(_, _)
sku_to_color(rows, sku) ==
    IF rows = <<>> THEN NoColor
    ELSE LET v == rows[Len(rows)]
         IN  IF v.sku = sku /\ v.sku # <<>> /\ v.color # NoColor THEN v.color
             ELSE sku_to_color(SubSeq(rows, 1, Len(rows) - 1), sku)

\* color_to_variant_ids.get(color, [])
RECURSIVE color_to_variant_ids(_, _, _, _)
color_to_variant_ids(rows, created, urls, color) ==
    IF created = <<>> THEN <<>>
    ELSE LET cv == Head(created)
             c == sku_to_color(rows, cv.sku)
         IN  (IF c # NoColor /\ c \in Range(urls) /\ c = color THEN <<cv.id>> ELSE <<>>)
             \o color_to_variant_ids(rows, Tail(created), urls, color)

\* color_order: the colours of media_inputs, in the order of color_image_urls
RECURSIVE color_order(_, _, _)
color_order(rows, created, urls) ==
    IF urls = <<>> THEN <<>>
    ELSE (IF color_to_variant_ids(rows, created, urls, Head(urls)) # <<>>
          THEN <<Head(urls)>> ELSE <<>>)
         \o color_order(rows, created, Tail(urls))

\* media_inputs: one image for each colour of color_order, alt = the colour
MediaInputs(order) == [i \in DOMAIN order |-> [originalSource |-> <<"url", order[i]>>,
                                               alt |-> order[i]]]

\* the media list of the answer: for each input in turn the media item made
\* of it, a null entry, or nothing
RECURSIVE MediaList(_, _)
MediaList(inputs, fate) ==
    IF inputs = <<>> THEN <<>>
    ELSE (IF Head(fate) = "created"
             THEN <<[id |-> <<"media", Head(inputs).alt>>, alt |-> Head(inputs).alt]>>
          ELSE IF Head(fate) = "null" THEN <<NoMedia>>
          ELSE <<>>)
         \o MediaList(Tail(inputs), Tail(fate))

\* color = color_order[i]
ColorAt(order, i, media_item) == order[i]

\* a mutation sent: the media inputs of an upload, or the media item, the
\* colour and the variants of an assignment
ImageCall(kind, inputs, media, color, variants, outcome) ==
    [kind |-> kind, inputs |-> inputs, media |-> media, color |-> color,
     variants |-> variants, outcome |-> outcome]

InitImages ==
    /\ InitCacheState
    /\ InitCompareState
    /\ InitFetchState
    /\ InitBinsState
    /\ InitParseState
    /\ InitPriceState
    /\ InitWriteState
    /\ InitResolveState
    /\ InitPauseState
    /\ InitResumeState
    /\ InitSyncState
    /\ image_rows \in ImageRows
    /\ created_variants \in CreatedOf(image_rows)
    /\ color_image_urls \in ImageUrls
    /\ created_media = <<>>
    /\ media_i = 1
    /\ image_calls = <<>>
    /\ ipc = "upload"

\* the lookups, the early returns and productCreateMedia, which may raise
UploadMedia ==
    /\ ipc = "upload"
    /\ LET order == color_order(image_rows, created_variants, color_image_urls)
           media_inputs == MediaInputs(order)
       IN  IF media_inputs = <<>>
           THEN /\ ipc' = "returned"
                /\ UNCHANGED <<created_media, image_calls>>
           ELSE \/ /\ \E fate \in [DOMAIN media_inputs -> {"created", "null", "left_out"}] :
                         created_media' = MediaList(media_inputs, fate)
                   /\ image_calls' =
                         Append(image_calls,
                                ImageCall("productCreateMedia", media_inputs, NoMedia,
                                          NoColor, <<>>, "answered"))
                   /\ ipc' = "assign"
                \/ /\ image_calls' =
                         Append(image_calls,
                                ImageCall("productCreateMedia", media_inputs, NoMedia,
                                          NoColor, <<>>, "raised"))
                   /\ ipc' = "returned"
                   /\ UNCHANGED created_media
    /\ UNCHANGED <<image_rows, created_variants, color_image_urls, media_i>>
    /\ UNCHANGED outsideImages

\* for i, media_item in enumerate(created_media): one turn, with the bulk
\* update that assigns the media item, if it is sent
AssignMedia ==
    /\ ipc = "assign"
    /\ LET order == color_order(image_rows, created_variants, color_image_urls)
       IN  IF media_i > Len(created_media)
           THEN /\ ipc' = "returned"
                /\ UNCHANGED <<media_i, image_calls>>
           ELSE LET media_item == created_media[media_i]
                IN  /\ media_i' = media_i + 1
                    /\ UNCHANGED ipc
                    /\ IF media_item = NoMedia \/ media_i > Len(order)
                       THEN UNCHANGED image_calls
                       ELSE LET color == ColorAt(order, media_i, media_item)
                                variant_ids ==
                                    color_to_variant_ids(image_rows, created_variants,
                                                         color_image_urls, color)
                            IN  IF variant_ids = <<>>
                                THEN UNCHANGED image_calls
                                ELSE \E outcome \in {"assigned", "user_errors", "raised"} :
                                        image_calls' =
                                           Append(image_calls,
                                                  ImageCall("productVariantsBulkUpdate",
                                                            <<>>, media_item, color,
                                                            variant_ids, outcome))
    /\ UNCHANGED <<image_rows, created_variants, color_image_urls, created_media>>
    /\ UNCHANGED outsideImages

NextImages ==
    \/ UploadMedia
    \/ AssignMedia

SpecImages == InitImages /\ [][NextImages]_vars

-----------------------------------------------------------------------------
(* Reconciliation: what the claims speak of, stated on the inputs alone *)

AllVariants == UNION {Range(shopify_products[n].variants) : n \in DOMAIN shopify_products}
AllCatalogSkus == {v.sku : v \in AllVariants}
AllCatalogBarcodes == {v.barcode : v \in AllVariants}

Rows == DOMAIN vendor_products
Called == cpc # "start"

SkuHit(r) == r.sku # <<>> /\ r.sku \in AllCatalogSkus
EanHit(r) == r.ean # <<>> /\ r.ean \in AllCatalogBarcodes
RowKnown(r) == SkuHit(r) \/ EanHit(r)

SameGroup(i, j) ==
    Strip(vendor_products[i].product_code) = Strip(vendor_products[j].product_code)
GroupKnown(i) == \E j \in Rows : SameGroup(i, j) /\ RowKnown(vendor_products[j])

InNewProducts(r) == r \in Range(result.new_products)
Untag(e) == [e EXCEPT !.shopify_product_id = NoKey, !.shopify_product_title = NoKey]
InNewVariants(r) == \E e \in Range(result.new_variants) : Untag(e) = r

\* the first row of i's group, in feed order, that has a hit
FirstHitRow(i) ==
    CHOOSE j \in Rows :
        /\ SameGroup(i, j) /\ RowKnown(vendor_products[j])
        /\ \A k \in Rows :
              SameGroup(i, k) /\ RowKnown(vendor_products[k]) => j <= k

\* the catalog products that carry the key the row hits with (SKU before EAN)
HitOwners(r) ==
    IF SkuHit(r)
    THEN {n \in DOMAIN shopify_products :
            \E v \in Range(shopify_products[n].variants) : v.sku = r.sku}
    ELSE {n \in DOMAIN shopify_products :
            \E v \in Range(shopify_products[n].variants) : v.barcode = r.ean}

MinOf(S) == CHOOSE x \in S : \A y \in S : x <= y
MaxOf(S) == CHOOSE x \in S : \A y \in S : x >= y

\* the row of the feed an entry of new_variants was made from
RowOf(e) == CHOOSE i \in Rows : vendor_products[i] = Untag(e)

TaggedWith(e, n) ==
    /\ e.shopify_product_id = shopify_products[n].id
    /\ e.shopify_product_title = shopify_products[n].title

(* C1: two rows with the same non-empty product_code are both in
   new_products or both not, and the rows of a group are in new_products
   exactly when no row of the group has its SKU or its non-empty EAN in the
   catalog. *)
C1_GroupAtomic ==
    Called =>
      /\ \A i, j \in Rows :
            /\ vendor_products[i].product_code = vendor_products[j].product_code
            /\ vendor_products[i].product_code # <<>>
            => (InNewProducts(vendor_products[i]) <=> InNewProducts(vendor_products[j]))
      /\ \A i \in Rows :
            Strip(vendor_products[i].product_code) # <<>>
            => (InNewProducts(vendor_products[i]) <=> ~GroupKnown(i))

C1_Witness ==
    /\ Called
    /\ \E i, j \in Rows :
          /\ vendor_products[i].sku # vendor_products[j].sku
          /\ vendor_products[i].product_code = vendor_products[j].product_code
          /\ InNewProducts(vendor_products[i])
          /\ InNewProducts(vendor_products[j])

(* C2: a row whose SKU is not in the catalog and whose non-empty EAN is the
   barcode of some catalog variant is never in new_products. *)
C2_EanMatchSuffices ==
    Called =>
      \A i \in Rows :
        LET r == vendor_products[i]
        IN  r.sku \notin AllCatalogSkus /\ EanHit(r) => ~InNewProducts(r)

C2_Witness ==
    /\ Called
    /\ \E i \in Rows :
          LET r == vendor_products[i]
          IN  /\ r.sku \notin AllCatalogSkus /\ EanHit(r)
              /\ \A j \in Rows : SameGroup(i, j) => ~SkuHit(vendor_products[j])
              /\ \E v \in AllVariants : v.barcode = r.ean /\ v.sku = <<>>

(* C3: in a group that has a match, a row is in new_variants if and only if
   its SKU is in no catalog product and its EAN is empty or in no catalog
   product; a row whose SKU or EAN is known is in neither list. *)
C3_NewVariantRows ==
    Called =>
      \A i \in Rows :
        LET r == vendor_products[i]
        IN  /\ GroupKnown(i) =>
                 (InNewVariants(r) <=>
                    /\ r.sku \notin AllCatalogSkus
                    /\ (r.ean = <<>> \/ r.ean \notin AllCatalogBarcodes))
            /\ RowKnown(r) => ~InNewVariants(r) /\ ~InNewProducts(r)

\* a row known only through a product other than the matched one is left
\* out, and a sibling is emitted
C3_Witness ==
    /\ Called
    /\ \E i, j \in Rows :
          /\ SameGroup(i, j)
          /\ InNewVariants(vendor_products[i])
          /\ RowKnown(vendor_products[j])
          /\ ~InNewVariants(vendor_products[j])
          /\ \A e \in Range(result.new_variants) :
                \A n \in HitOwners(vendor_products[j]) : ~TaggedWith(e, n)

(* C4, as claimed: when the key a group is matched through is on two catalog
   products, the group's entries carry the id and title of the first of
   them in catalog order. *)
C4_FirstProductWins ==
    Called =>
      \A e \in Range(result.new_variants) :
        LET owners == HitOwners(vendor_products[FirstHitRow(RowOf(e))])
        IN  Cardinality(owners) >= 2 => TaggedWith(e, MinOf(owners))

(* C4, amended: when the key a group is matched through is on two catalog
   products, the group's entries carry the id and title of the last of them
   in catalog order. *)
C4_LastProductWins ==
    Called =>
      \A e \in Range(result.new_variants) :
        LET owners == HitOwners(vendor_products[FirstHitRow(RowOf(e))])
        IN  Cardinality(owners) >= 2 => TaggedWith(e, MaxOf(owners))

C4_Witness ==
    /\ Called
    /\ \E e \in Range(result.new_variants) :
          Cardinality(HitOwners(vendor_products[FirstHitRow(RowOf(e))])) >= 2

(* C5: all new_variants entries of one group carry the same product id and
   title, those of the product hit by the first row of the group, in feed
   order, that has a SKU hit or an EAN hit (SKU before EAN), whatever
   products the later rows of the group hit. *)
C5_FirstHitTagsGroup ==
    Called =>
      /\ \A e1, e2 \in Range(result.new_variants) :
            Strip(e1.product_code) = Strip(e2.product_code)
            => /\ e1.shopify_product_id = e2.shopify_product_id
               /\ e1.shopify_product_title = e2.shopify_product_title
      /\ \A e \in Range(result.new_variants) :
            \E n \in HitOwners(vendor_products[FirstHitRow(RowOf(e))]) :
                TaggedWith(e, n)

\* a later row of the group hits another product than the first hit does
C5_Witness ==
    /\ Called
    /\ \E e \in Range(result.new_variants) :
          \E k \in Rows :
             /\ SameGroup(RowOf(e), k)
             /\ k > FirstHitRow(RowOf(e))
             /\ RowKnown(vendor_products[k])
             /\ HitOwners(vendor_products[k])
                  \cap HitOwners(vendor_products[FirstHitRow(RowOf(e))]) = {}

(* C6: a call leaves the vendor rows and the catalog as they were, and a
   second call on them returns the lists the first one returned. *)
C6_RepeatableAndPure ==
    [][CompareCall =>
         /\ vendor_products' = vendor_products
         /\ shopify_products' = shopify_products
         /\ (cpc = "once" => result' = result)]_vars

C6_Witness ==
    /\ cpc = "twice"
    /\ result.new_products # <<>>
    /\ result.new_variants # <<>>
    /\ result = prev_result

-----------------------------------------------------------------------------
(* Shipmondo cache: what the claims speak of *)

Fetching(t) == pc[t] = "fetch"
Returned(t) == pc[t] \in {"lock", "stamp"}     \* fetch_all_shipmondo_items returned
Raised(t) == pc[t] = "except"                  \* fetch_all_shipmondo_items raised

\* the item map of the first n pages of the listing
RECURSIVE ItemsOfPages(_)
ItemsOfPages(n) ==
    IF n = 0 THEN <<>> ELSE StoreItems(ItemsOfPages(n - 1), ServerPage(n))

\* the pages a fetch got before it ended
PagesGot(t) == IF failed_page[t] = 0 THEN NumPages ELSE failed_page[t] - 1

CacheReplaced ==
    \/ shipmondo_cache'.items # shipmondo_cache.items
    \/ shipmondo_cache'.last_updated # shipmondo_cache.last_updated

\* thread t takes one of the two steps under the lock
StoreStep(t) == pc[t] \in {"lock", "stamp"} /\ pc'[t] # pc[t]

(* C7, as claimed: at most one execution of fetch_and_cache_shipmondo_items
   is fetching at any time. *)
C7_AtMostOneFetching == Cardinality({t \in Threads : Fetching(t)}) <= 1

(* C8, as claimed: the items and last_updated of the cache are replaced only
   by a refresh whose fetch got every page without a transport error. *)
C8_OnlyErrorFreeFetchReplaces ==
    [][CacheReplaced => \E t \in Threads : StoreStep(t) /\ failed_page[t] = 0]_vars

(* C8, amended: the items and last_updated of the cache are replaced only by
   the store of a refresh whose fetch returned, with all pages or with the
   pages before a failed request of page 2 or later; a refresh whose request
   of page 1 failed replaces nothing. *)
C8_OnlyReturnedFetchReplaces ==
    [][CacheReplaced =>
         \E t \in Threads :
            /\ StoreStep(t)
            /\ failed_page[t] # 1
            /\ shipmondo_cache'.items = ItemsOfPages(PagesGot(t))]_vars

\* a refresh that lost a later page has replaced the cache with a partial map
C8_Witness ==
    \E t \in Threads :
       /\ pc[t] = "finally"
       /\ failed_page[t] >= 2
       /\ shipmondo_cache.items = all_items[t]
       /\ shipmondo_cache.items # ItemsOfPages(NumPages)
       /\ shipmondo_cache.last_updated # 0

(* C9, as claimed: a fetch in which a page request failed raises; it never
   returns the items collected before the failure. *)
C9_AnyErrorPropagates ==
    \A t \in Threads : Returned(t) => failed_page[t] = 0

(* C9, amended: a failed request of page 1 is raised to the caller; a failed
   request of a later page ends the fetch, which returns the items of the
   pages before it; a fetch without a failed request returns the items of
   all pages. *)
C9_FirstPageErrorPropagates ==
    \A t \in Threads :
       /\ Raised(t) => failed_page[t] = 1
       /\ Returned(t) =>
             /\ failed_page[t] # 1
             /\ all_items[t] = ItemsOfPages(PagesGot(t))

C9_Witness ==
    \E t \in Threads :
       /\ Returned(t)
       /\ failed_page[t] >= 2
       /\ all_items[t] # <<>>
       /\ all_items[t] # ItemsOfPages(NumPages)

-----------------------------------------------------------------------------
(* Catalog fetch: what the claims speak of *)

UpstreamProducts == UNION {Range(upstream[v]) : v \in DOMAIN upstream}

\* pages a connection of n edges has at `first` edges a page
PagesOf(n, first) == IF n = 0 THEN 1 ELSE (n + first - 1) \div first

RECURSIVE SumOver(_, _)
SumOver(S, f) ==
    IF S = {} THEN 0
    ELSE LET x == CHOOSE y \in S : TRUE IN f[x] + SumOver(S \ {x}, f)

\* one products query per product page, one variant query per further
\* variant page
PagesUpstream ==
    SumOver(DOMAIN upstream,
            [v \in DOMAIN upstream |-> PagesOf(Len(upstream[v]), page_size.products)])
    + SumOver(UpstreamProducts,
              [pr \in UpstreamProducts |->
                  PagesOf(Len(pr.variants), page_size.variants) - 1])

\* the variants of the product have SKUs, each its own
DistinctSkus(pr) ==
    \A i, j \in DOMAIN pr.variants :
        /\ pr.variants[i].sku # <<>>
        /\ i # j => pr.variants[i].sku # pr.variants[j].sku

FetchedAll ==
    /\ DOMAIN products_map = {pr.id : pr \in UpstreamProducts}
    /\ \A pr \in UpstreamProducts :
          /\ products_map[pr.id].title = pr.title
          /\ products_map[pr.id].vendor = pr.vendor
          /\ DOMAIN products_map[pr.id].variants = {v.sku : v \in Range(pr.variants)}
          /\ DistinctSkus(pr) =>
                \A v \in Range(pr.variants) :
                    products_map[pr.id].variants[v.sku] = ParseVariant(v)

(* C10: the fetch ends, and when it has ended the map holds every product of
   every product page with every variant of every variant page, after one
   query for each page. *)
C10_PagesBothDimensions ==
    /\ [](fpc = "done" => FetchedAll /\ requests = PagesUpstream)
    /\ <>(fpc = "done")

\* ended, with a vendor of several product pages and a product of several
\* variant pages
C10_Witness ==
    /\ fpc = "done"
    /\ \E v \in DOMAIN upstream : Len(upstream[v]) > page_size.products
    /\ \E pr \in UpstreamProducts : Len(pr.variants) > page_size.variants
    /\ requests = PagesUpstream

-----------------------------------------------------------------------------
(* Regex bin update: what the claims speak of *)

\* the pattern's literal text and whether it is tied to the start
PatternText == IF Head(regex_pattern) = "^" THEN Tail(regex_pattern) ELSE regex_pattern
PatternAtStart == Head(regex_pattern) = "^"
PatternCompiles == "(" \notin Range(regex_pattern)

\* position of the first occurrence of lit in s, 0 if there is none
FirstOcc(s, lit) ==
    LET occ == {i \in 1..(Len(s) + 1) :
                  i + Len(lit) - 1 <= Len(s) /\ SubSeq(s, i, i + Len(lit) - 1) = lit}
    IN  IF occ = {} THEN 0 ELSE CHOOSE i \in occ : \A j \in occ : i <= j

\* s with every occurrence of lit replaced, lit not empty
RECURSIVE ReplaceAll(_, _, _)
ReplaceAll(s, lit, repl) ==
    LET i == FirstOcc(s, lit)
    IN  IF i = 0 THEN s
        ELSE SubSeq(s, 1, i - 1) \o repl
             \o ReplaceAll(SubSeq(s, i + Len(lit), Len(s)), lit, repl)

BinHasMatch(b) ==
    IF PatternAtStart THEN FirstOcc(b, PatternText) = 1
    ELSE FirstOcc(b, PatternText) # 0

BinSubstituted(b) ==
    IF PatternAtStart
    THEN replacement \o SubSeq(b, Len(PatternText) + 1, Len(b))
    ELSE ReplaceAll(b, PatternText, replacement)

MatchedSkus == {m.sku : m \in Range(match_result.matching_items)}

C11_Post ==
    /\ ~match_result.error
    /\ match_result.count = Len(match_result.matching_items)
    /\ Cardinality(MatchedSkus) = Len(match_result.matching_items)
    /\ MatchedSkus =
          {it.sku : it \in {x \in Range(bin_items) : x.bin # <<>> /\ BinHasMatch(x.bin)}}
    /\ \A m \in Range(match_result.matching_items) :
          \E it \in Range(bin_items) :
             /\ it.sku = m.sku /\ it.id = m.item_id /\ it.bin = m.current_bin
             /\ m.new_bin = BinSubstituted(it.bin)
    /\ (/\ [i \in DOMAIN bin_items |-> bin_items[i].bin]
             = <<Str_A1_01, Str_A1_02, Str_B2_01>>
        /\ regex_pattern = <<"^", "A", "1">>
        /\ replacement = Str_C3)
       => [i \in DOMAIN match_result.matching_items |->
              match_result.matching_items[i].new_bin]
          = <<Str_C3 \o <<"-", "0", "1">>, Str_C3 \o <<"-", "0", "2">>>>

(* C11: for a pattern that compiles, matching_items holds exactly the items
   whose bin is not empty and matches the pattern, each once and with new_bin
   the bin with the replacement substituted for the match; count is the
   length of the list and the item map is as it was. *)
C11_MatchingItems ==
    [][PreviewBatchUpdate /\ PatternCompiles => bin_items' = bin_items /\ C11_Post']_vars

\* the example of the specification, and an item with an empty bin beside a
\* pattern that matches the empty string
C11_Witness ==
    /\ bpc = "done"
    /\ \/ /\ [i \in DOMAIN bin_items |-> bin_items[i].bin]
               = <<Str_A1_01, Str_A1_02, Str_B2_01>>
          /\ regex_pattern = <<"^", "A", "1">>
          /\ replacement = Str_C3
          /\ match_result.count = 2
       \/ /\ regex_pattern = <<"^">>
          /\ \E it \in Range(bin_items) : it.bin = <<>>
          /\ match_result.count = 0

-----------------------------------------------------------------------------
(* Vendor CSV parsing: what the claims speak of *)

\* one whole line was parsed into one product
OneLineParsed ==
    /\ ppc = "done"
    /\ Len(csv_lines) = 1
    /\ csv_fieldnames = FullHeader
    /\ Len(csv_lines[1]) = 3
    /\ Len(parse_result.products) = 1

\* the size string as the field holds it
SizeString == Strip(csv_lines[1][3])

\* the text before the first "/"
BeforeFirstSlash(s) ==
    LET i == FirstOcc(s, <<"/">>)
    IN  IF i = 0 THEN s ELSE SubSeq(s, 1, i - 1)

\* n times the letter c
Run(c, n) == [i \in 1..n |-> c]

\* a run of n >= 2 letters from xs, then S or L (or a letter of sl)
Collapsed(s, xs, sl) ==
    IF \E n \in 2..Len(s) :
          /\ Len(s) = n + 1
          /\ \A i \in 1..n : s[i] \in xs
          /\ s[n + 1] \in sl
    THEN DecimalText(Len(s) - 1)
         \o <<"X", IF s[Len(s)] \in {"S", "s"} THEN "S" ELSE "L">>
    ELSE s

(* C12 as stated: the size is the text before the first "/", with a run of
   n >= 2 "X" followed by "S" or "L" rewritten as <n>X<S|L>, and every other
   size unchanged. *)
C12_SizeAsStated ==
    OneLineParsed =>
        parse_result.products[1].size
          = Collapsed(BeforeFirstSlash(SizeString), {"X"}, {"S", "L"})

(* C12: the size is the text before the first "/", trimmed, with a run of
   n >= 2 letters X followed by S or L, in either case, rewritten as
   <n>X<S|L> in upper case, and every other size unchanged; XXXL gives 3XL,
   XXL gives 2XL, XL/Regular gives XL and M gives M. *)
C12_SizeNormalized ==
    OneLineParsed =>
        /\ parse_result.products[1].size
             = Collapsed(Strip(BeforeFirstSlash(SizeString)),
                         {"X", "x"}, {"S", "L", "s", "l"})
        /\ SizeString = Str_XXXL => parse_result.products[1].size = <<"3", "X", "L">>
        /\ SizeString = Str_XXL => parse_result.products[1].size = <<"2", "X", "L">>
        /\ SizeString = Str_XL_Regular => parse_result.products[1].size = <<"X", "L">>
        /\ SizeString = <<"M">> => parse_result.products[1].size = <<"M">>

\* a lower-case run was collapsed
C12_Witness ==
    /\ OneLineParsed
    /\ SizeString = <<"x", "x", "l">>
    /\ parse_result.products[1].size = <<"2", "X", "L">>

\* the SKU field of a line, "" where the line does not reach the column
SkuOfLine(fields) ==
    LET at == {j \in DOMAIN csv_fieldnames : csv_fieldnames[j] = "SKU"}
        i == CHOOSE j \in at : TRUE
    IN  IF at # {} /\ i <= Len(fields) THEN Strip(fields[i]) ELSE <<>>

FieldOfLine(fields, key) ==
    LET at == {j \in DOMAIN csv_fieldnames : csv_fieldnames[j] = key}
        i == CHOOSE j \in at : TRUE
    IN  IF at # {} /\ i <= Len(fields) THEN Strip(fields[i]) ELSE <<>>

ShortLine(fields) == Len(fields) < Len(csv_fieldnames)
LongLine(fields) == Len(fields) > Len(csv_fieldnames)

\* the lines kept, in order
RECURSIVE KeptLines(_, _)
KeptLines(lines, skipShort) ==
    IF lines = <<>> THEN <<>>
    ELSE (IF \/ SkuOfLine(Head(lines)) = <<>>
             \/ skipShort /\ ShortLine(Head(lines))
          THEN <<>> ELSE <<Head(lines)>>)
         \o KeptLines(Tail(lines), skipShort)

\* sku, ean and size of each product, against those of the lines kept
ProductsAre(kept) ==
    /\ Len(parse_result.products) = Len(kept)
    /\ \A i \in DOMAIN kept :
          /\ parse_result.products[i].sku = FieldOfLine(kept[i], "SKU")
          /\ parse_result.products[i].ean = FieldOfLine(kept[i], "EAN13")

NoLongLine == \A i \in DOMAIN csv_lines : ~LongLine(csv_lines[i])

(* C13 as stated: rows with an empty SKU and rows missing a column are
   skipped, every other row gives one VendorRow in input order, and nothing
   is raised on such rows. *)
C13_SkipsMalformedRows ==
    ppc = "done" /\ NoLongLine =>
        /\ ~parse_result.raised
        /\ ProductsAre(KeptLines(csv_lines, TRUE))

(* C13: only rows whose SKU is empty after trimming are skipped, a row that
   does not reach the SKU column among them; a row missing any other column
   gives a VendorRow with the missing fields empty; the rows kept come in
   input order and nothing is raised on rows no longer than the header. *)
C13_SkipsEmptySku ==
    ppc = "done" /\ NoLongLine =>
        /\ ~parse_result.raised
        /\ ProductsAre(KeptLines(csv_lines, FALSE))

\* a short row with a SKU was emitted, a short row without one was skipped
C13_Witness ==
    /\ ppc = "done"
    /\ NoLongLine
    /\ \E i \in DOMAIN csv_lines :
          ShortLine(csv_lines[i]) /\ SkuOfLine(csv_lines[i]) # <<>>
    /\ \E i \in DOMAIN csv_lines :
          ShortLine(csv_lines[i]) /\ csv_lines[i] # <<>> /\ SkuOfLine(csv_lines[i]) = <<>>
    /\ Len(parse_result.products) = 1
    /\ parse_result.products[1].ean = <<>>

-----------------------------------------------------------------------------
(* Retail price: what the claim speaks of *)

\* the tier's step for a converted amount of d200 / 200 DKK
TierStep(d200) == IF d200 <= 100 * 200 THEN 10 ELSE IF d200 <= 800 * 200 THEN 50 ELSE 100

\* the least multiple of step that is not below the amount
RoundedUp(d200, step) ==
    CHOOSE m \in 0..(d200 \div 200 + step) :
        /\ m % step = 0
        /\ m * 200 >= d200
        /\ \A k \in 0..(m - 1) : k % step = 0 => k * 200 < d200

\* the whole-number part of a price text
WholePart(text) == SubSeq(text, 1, Len(text) - 3)

(* C14: for every converted amount d = price * 7.5 the retail price is d
   rounded up to a multiple of 10 (d <= 100), of 50 (100 < d <= 800) or of
   100 (d > 800), less 1, and it ends in 9; 78 gives 79, 420 gives 449 and
   850.5 gives 899. *)
C14_CharmPrice ==
    qpc = "done" =>
        LET d200 == eur_cents * 15
        IN  /\ retail_price
                 = FormatPrice(RoundedUp(d200, TierStep(d200)) - 1)
            /\ WholePart(retail_price)[Len(WholePart(retail_price))] = "9"
            /\ d200 = 78 * 200 => WholePart(retail_price) = <<"7", "9">>
            /\ d200 = 420 * 200 => WholePart(retail_price) = <<"4", "4", "9">>
            /\ d200 = 1701 * 100 => WholePart(retail_price) = <<"8", "9", "9">>

\* the amount a price text states, in oere
RECURSIVE DigitsValue(_)
DigitsValue(ds) ==
    IF ds = <<>> THEN 0
    ELSE DigitsValue(SubSeq(ds, 1, Len(ds) - 1)) * 10
         + (CHOOSE d \in 0..9 : DigitChars[d + 1] = ds[Len(ds)])

PriceOere(text) ==
    IF text[1] = "-" THEN -(DigitsValue(SubSeq(WholePart(text), 2, Len(text) - 3)) * 100)
    ELSE DigitsValue(WholePart(text)) * 100

(* C29: the retail price derived from a vendor price is never below the unit
   cost written on the same variant. *)
C29_RetailCoversCost ==
    qpc = "done" => PriceOere(retail_price) >= unit_cost

-----------------------------------------------------------------------------
(* Variant write: what the claims speak of *)

CallsOf(kind) == {c \in Range(api_calls) : c.kind = kind}
BulkCalls == CallsOf("productVariantsBulkUpdate") \cup CallsOf("productVariantsBulkCreate")

\* the variant inputs a kind of mutation was sent, and their SKUs
SentTo(kind) == UNION {Range(c.variants) : c \in CallsOf(kind)}
SkusSentTo(kind) == {e.input.sku : e \in SentTo(kind)}

WriteRowOf(sku) == CHOOSE v \in Range(variants_data) : v.sku = sku

\* the call is past the bulk create or its omission
PastCreate ==
    \/ wpc \in {"images", "images_no_create"}
    \/ wpc = "done" /\ write_result.at \in {"except", "end", "no_create", "images"}

\* the price derived from a row: conversion, tier and less 1
DerivedPrice(v) ==
    IF v.has_price
    THEN FormatPrice(RoundedUp(v.price_cents * 15, TierStep(v.price_cents * 15)) - 1)
    ELSE <<>>

ZeroPrice == <<"0", ".", "0", "0">>
NonZeroPrices == {shop_product.variants[i].price : i \in DOMAIN shop_product.variants} \ {ZeroPrice}

(* C15 as stated: if some existing variant of the product has a non-zero
   price, every written variant receives an existing price; only if none has
   one is the price derived from the vendor's price. *)
C15_ReusesAnyExistingPrice ==
    \A e \in SentTo("productVariantsBulkUpdate") \cup SentTo("productVariantsBulkCreate") :
        IF NonZeroPrices # {} THEN e.input.price \in NonZeroPrices
        ELSE e.input.price = DerivedPrice(WriteRowOf(e.input.sku))

(* C15: if the first existing variant of the product has a non-zero price,
   every written variant receives that price; otherwise the price is derived
   from the row's vendor price, whatever the other existing variants cost,
   and a row without a vendor price is written without a price. *)
C15_ReusesFirstVariantPrice ==
    \A e \in SentTo("productVariantsBulkUpdate") \cup SentTo("productVariantsBulkCreate") :
        IF shop_product.variants[1].price # ZeroPrice
        THEN e.input.price = shop_product.variants[1].price
        ELSE e.input.price = DerivedPrice(WriteRowOf(e.input.sku))

\* the first variant is free, the second is not, and a row was written with
\* the derived price
C15_Witness ==
    /\ Len(shop_product.variants) = 2
    /\ shop_product.variants[1].price = ZeroPrice
    /\ shop_product.variants[2].price # ZeroPrice
    /\ \E e \in SentTo("productVariantsBulkUpdate") :
          e.input.price = <<"7", "9", ".", "0", "0">>

\* the option values of a row: its size, normalised, and its colour, each
\* where the row has one
RowTuple(v) ==
    {t \in {<<OptSize, Collapsed(Strip(BeforeFirstSlash(Strip(v.size))),
                                 {"X", "x"}, {"S", "L", "s", "l"})>>,
            <<OptColor, v.color>>} : t[2] # <<>>}

\* some existing variant has the row's option values
RowIsOnProduct(v) ==
    \E i \in DOMAIN shop_product.variants :
        {so \in shop_product.variants[i].selectedOptions : so[1] # "Title"} = RowTuple(v)

(* C16: once the call is past the bulk create, every row has gone exactly one
   way: a row whose option values are those of an existing variant was sent
   to productVariantsBulkUpdate and not to productVariantsBulkCreate, every
   other row to productVariantsBulkCreate and not to the update. *)
C16_UpdateOrCreate ==
    PastCreate =>
        \A i \in DOMAIN variants_data :
            LET v == variants_data[i]
            IN  IF RowIsOnProduct(v)
                THEN /\ v.sku \in SkusSentTo("productVariantsBulkUpdate")
                     /\ v.sku \notin SkusSentTo("productVariantsBulkCreate")
                ELSE /\ v.sku \in SkusSentTo("productVariantsBulkCreate")
                     /\ v.sku \notin SkusSentTo("productVariantsBulkUpdate")

\* one row went to the update, another to the create
C16_Witness ==
    /\ PastCreate
    /\ \E i, j \in DOMAIN variants_data :
          /\ RowIsOnProduct(variants_data[i])
          /\ variants_data[i].sku \in SkusSentTo("productVariantsBulkUpdate")
          /\ ~RowIsOnProduct(variants_data[j])
          /\ variants_data[j].sku \in SkusSentTo("productVariantsBulkCreate")

\* the call returned from one of its last three return statements
ReturnedFromWrite ==
    /\ write_result.status = "returned"
    /\ write_result.at \in {"end", "no_create", "except"}

(* C17: when the call returns, the user errors of the bulk update and of the
   bulk create are in errors, the variants either reported as written are in
   created, the bulk create was sent if there was anything to create,
   whatever became of the update, and the image steps were run if anything
   was written. *)
C17_UserErrorsDoNotAbort ==
    ReturnedFromWrite =>
        /\ \A c \in BulkCalls :
              /\ c.outcome = "user_errors" => Range(c.errors) \subseteq Range(write_result.errors)
              /\ Range(c.written) \subseteq Range(write_result.created)
        /\ variants_to_create # <<>> => CallsOf("productVariantsBulkCreate") # {}
        /\ (write_result.created # <<>> /\ write_result.at # "except")
              => CallsOf("images") # {}

\* the update answered with user errors and so did the create, and both
\* reported variants
C17_Witness ==
    /\ ReturnedFromWrite
    /\ \E u \in CallsOf("productVariantsBulkUpdate"), c \in CallsOf("productVariantsBulkCreate") :
          /\ u.outcome = "user_errors" /\ u.written # <<>>
          /\ c.outcome = "user_errors" /\ c.written # <<>>
    /\ Len(write_result.created) = 2
    /\ Len(write_result.errors) >= 2

(* C18: whenever a call of the API raised, add_variants_to_shopify_product
   has returned a result with no created variant and exactly one error. *)
C18_ExceptionGivesSingleError ==
    (wpc = "done" /\ \E c \in Range(api_calls) : c.outcome = "raise") =>
        /\ write_result.status = "returned"
        /\ write_result.created = <<>>
        /\ Len(write_result.errors) = 1

(* C19 as stated: no productOptionUpdate adds values to a linked option. *)
C19_NoValuesAddedToLinkedOption ==
    \A c \in CallsOf("productOptionUpdate") : ~c.linked

\* the values the rows need of an option that the product did not have
NeededNotOnProduct(opt_name) ==
    {t[2] : t \in {x \in UNION {RowTuple(variants_data[i]) : i \in DOMAIN variants_data} :
                     x[1] = opt_name}}
    \ UNION {shop_product.options[i].values :
               i \in {j \in DOMAIN shop_product.options :
                        shop_product.options[j].name = opt_name}}

(* C19: a productOptionUpdate adds to a plain option all the values the rows
   need and the product lacks, and to a linked option those of them that
   have a metaobject, and no others; where none has one, nothing is sent. *)
C19_LinkedValuesResolved ==
    \A c \in CallsOf("productOptionUpdate") :
        /\ c.values # {}
        /\ c.values = IF c.linked THEN NeededNotOnProduct(c.option) \cap metaobjects
                      ELSE NeededNotOnProduct(c.option)

\* a value was added to the linked colour option
C19_Witness ==
    \E c \in CallsOf("productOptionUpdate") :
        c.linked /\ c.option = OptColor /\ c.values = {ColorB}

-----------------------------------------------------------------------------
(* Metaobject resolution: what the claim speaks of *)

ResolvedNames == DOMAIN resolution.resolved
MissingNames == {resolution.missing[i] : i \in DOMAIN resolution.missing}
Requested == {display_names[i] : i \in DOMAIN display_names}

\* the metaobjects whose display name is n, exactly or once trimmed
NamedExactly(n) == {i \in DOMAIN metaobject_list : metaobject_list[i] = n}
NamedTrimmed(n) ==
    {i \in DOMAIN metaobject_list : RStrip(LStrip(metaobject_list[i])) = n}

\* every requested name is in exactly one of resolved and missing
Partitioned ==
    /\ ResolvedNames \cup MissingNames = Requested
    /\ ResolvedNames \cap MissingNames = {}

(* C20 as stated: each requested name is in exactly one of resolved and
   missing, and it is in resolved, with the id of a metaobject of that name,
   exactly when some metaobject on any page has that exact display name. *)
C20_ExactNameResolves ==
    rpc = "done" =>
        /\ Partitioned
        /\ \A n \in Requested :
              /\ n \in ResolvedNames <=> NamedExactly(n) # {}
              /\ n \in ResolvedNames => resolution.resolved[n] \in NamedExactly(n)

(* C20: each requested name is in exactly one of resolved and missing; it is
   in resolved exactly when some metaobject on any page has that display
   name once the metaobject's name is trimmed, case kept, and it is mapped to
   the id of the last such metaobject; missing keeps the order of the
   request. *)
C20_TrimmedNameResolves ==
    rpc = "done" =>
        /\ Partitioned
        /\ \A n \in Requested :
              /\ n \in ResolvedNames <=> NamedTrimmed(n) # {}
              /\ n \in ResolvedNames =>
                    /\ resolution.resolved[n] \in NamedTrimmed(n)
                    /\ \A i \in NamedTrimmed(n) : i <= resolution.resolved[n]
        /\ resolution.missing
             = SelectSeq(display_names, LAMBDA n : NamedTrimmed(n) = {})

\* a name was resolved to a metaobject of a later page whose name is padded,
\* and another name is missing
C20_Witness ==
    /\ rpc = "done"
    /\ \E n \in ResolvedNames :
          /\ resolution.resolved[n] > mo_page_size
          /\ metaobject_list[resolution.resolved[n]] # n
    /\ resolution.missing # <<>>

-----------------------------------------------------------------------------
(* The refreshing flag *)

\* thread t has set the flag and not yet cleared it in its finally
Refreshing(t) == pc[t] \in {"fetch", "lock", "stamp", "except", "finally"}

(* C27: is_refreshing is true exactly while some execution of
   fetch_and_cache_shipmondo_items is between the start of its fetch and its
   end. *)
C27_FlagWhileRefreshing ==
    shipmondo_cache.is_refreshing <=> \E t \in Threads : Refreshing(t)

-----------------------------------------------------------------------------
(* Existing variants and the bulk update *)

\* the variant of the product an update entry addresses
VariantOfProduct(id) ==
    shop_product.variants[CHOOSE i \in DOMAIN shop_product.variants :
                             shop_product.variants[i].id = id]

(* C30: only placeholder variants, existing variants with an empty SKU, are
   sent to productVariantsBulkUpdate; an existing variant with a SKU is never
   written over. *)
C30_OnlyPlaceholdersUpdated ==
    \A e \in SentTo("productVariantsBulkUpdate") : VariantOfProduct(e.id).sku = NoSku

-----------------------------------------------------------------------------
(* From the catalog fetch to the comparison *)

\* a set in some order
RECURSIVE InSomeOrder(_)
InSomeOrder(S) ==
    IF S = {} THEN <<>>
    ELSE LET x == CHOOSE y \in S : TRUE IN <<x>> \o InSomeOrder(S \ {x})

\* the returned map as compare_vendor_products goes through it: the products
\* with their variants dict as a list of items
FetchedCatalog ==
    LET ids == InSomeOrder(DOMAIN products_map)
    IN  [n \in DOMAIN ids |->
            LET product == products_map[ids[n]]
                skus == InSomeOrder(DOMAIN product.variants)
            IN  [id |-> product.id, title |-> product.title,
                 variants |-> [i \in DOMAIN skus |-> product.variants[skus[i]]]]]

(* C28: when the fetch has ended, the barcode of every variant the API served
   is among the known barcodes the comparison builds from the returned
   map. *)
C28_NoBarcodeLost ==
    fpc = "done" =>
        \A pr \in UpstreamProducts :
            \A v \in Range(pr.variants) :
                v.barcode # <<>> => v.barcode \in known_barcodes(FetchedCatalog)

-----------------------------------------------------------------------------
(* Bin operations and the cached bin *)

\* the request for the item went through
UpdateSucceeded(reqs, sku) == \E r \in Range(reqs) : r.sku = sku /\ r.success

(* C22: a bin operation changes the cached bin of an item only if the
   Shipmondo update for that item reported success; an item whose update
   failed keeps its cached bin. *)
C22_CacheFollowsSuccess ==
    [][\A i \in DOMAIN bin_items :
          bin_items'[i].bin # bin_items[i].bin
             => UpdateSucceeded(bin_requests', bin_items[i].sku)]_vars

-----------------------------------------------------------------------------
(* Pausing an order: what the claim speaks of *)

\* positions in the log of the requests of a kind, and of those that went through
LogAt(request) == {i \in DOMAIN order_log : order_log[i].request = request}
LogOkAt(request) == {i \in LogAt(request) : order_log[i].ok}

\* handle_order has returned or raised
Handled == hpc \in {"returned", "raised"}

\* the order query answered, and some line item with a variant is below 0
ReportsShortage ==
    /\ LogOkAt("order") # {}
    /\ \E i \in DOMAIN line_items :
          line_items[i].has_variant /\ line_items[i].inventoryQuantity < 0

(* C23: handle_order sets about pausing the order exactly if some line item
   with a variant reports an inventoryQuantity below 0 (and then it does so);
   the Shipmondo order is put on hold only after the "paused" tag was added
   without error, and if adding the tag failed no Shipmondo request is
   made. *)
C23_PauseAfterTag ==
    /\ [](LogAt("tagsAdd") # {} => ReportsShortage)
    /\ [](\A i \in LogAt("on_hold") : \E j \in LogOkAt("tagsAdd") : j < i)
    /\ []((LogAt("tagsAdd") # {} /\ LogOkAt("tagsAdd") = {}) => LogAt("on_hold") = {})
    /\ (ReportsShortage ~> LogAt("tagsAdd") # {})
    /\ (LogOkAt("tagsAdd") # {} ~> LogAt("on_hold") # {})

\* an order with a custom item, a variant at nought and a variant below it
\* was tagged and then put on hold
C23_Witness ==
    /\ hpc = "returned"
    /\ \E i, j, k \in DOMAIN line_items :
          /\ ~line_items[i].has_variant
          /\ line_items[j].has_variant /\ line_items[j].inventoryQuantity = 0
          /\ line_items[k].has_variant /\ line_items[k].inventoryQuantity < 0
    /\ [i \in DOMAIN order_log |-> order_log[i].request] = <<"order", "tagsAdd", "on_hold">>
    /\ \A i \in DOMAIN order_log : order_log[i].ok

-----------------------------------------------------------------------------
(* Resuming orders: what the claim speaks of *)

\* the quantity the order asks of an inventory item
RECURSIVE QuantityIn(_, _)
QuantityIn(items, id) ==
    IF items = <<>> THEN 0
    ELSE (IF Head(items).has_variant /\ Head(items).id = id
          THEN Head(items).currentQuantity ELSE 0)
         + QuantityIn(Tail(items), id)

\* the quantity the first k orders of the list ask of an inventory item
RECURSIVE QuantityUpTo(_, _)
QuantityUpTo(k, id) ==
    IF k = 0 THEN 0
    ELSE QuantityUpTo(k - 1, id) + QuantityIn(open_orders[k].lineItems, id)

\* every item of order k is covered by the stock left by the orders up to it
CoveredByStock(k) ==
    \A i \in DOMAIN open_orders[k].lineItems :
        LET item == open_orders[k].lineItems[i]
        IN  item.has_variant => stock_levels[item.id] - QuantityUpTo(k, item.id) >= 0

(* C24: an order is resumed in Shipmondo only if it carries the tag "paused"
   or "Mangler Varer" and the stock covers its line items after those of
   every earlier order of the list; its tags are removed in Shopify only
   after the Shipmondo request for it returned a result. *)
C24_ResumeOnlyCovered ==
    \A i \in DOMAIN resume_log :
        LET call == resume_log[i]
        IN  /\ open_orders[call.order].tags \cap {"paused", "Mangler Varer"} # {}
            /\ CoveredByStock(call.order)
            /\ call.request = "tagsRemove" =>
                  \E j \in 1..(i - 1) :
                      resume_log[j] = [order |-> call.order, request |-> "open",
                                      outcome |-> "result"]

\* the second order was resumed and its tags removed after the first one,
\* which carries no tag, had taken from the same stock
C24_Witness ==
    /\ spc = "returned"
    /\ Len(open_orders) = 2
    /\ open_orders[1].tags = {}
    /\ \E id \in ItemIds :
          /\ QuantityIn(open_orders[1].lineItems, id) > 0
          /\ QuantityIn(open_orders[2].lineItems, id) > 0
    /\ resume_log = <<[order |-> 2, request |-> "open", outcome |-> "result"],
                      [order |-> 2, request |-> "tagsRemove", outcome |-> "removed"]>>

-----------------------------------------------------------------------------
(* Stock sync: what the claims speak of *)

\* the entries of a run, and whether every request of it went through
RunEntries(run) == {e \in Range(sync_log) : e.run = run}
RunSucceeded(run) == \A e \in RunEntries(run) : e.outcome \in {"none", "updated"}
RunEnded(run) == (sync_run = run /\ ypc = "ended") \/ sync_run > run

\* the feed lists the variant in stock
FeedHasInStock(key) ==
    /\ key \in DOMAIN vendor_feed
    /\ sync_vendor = "Frankonia" => vendor_feed[key] = "ja"
    /\ sync_vendor = "Helikon-Tex" => vendor_feed[key] > 0

PolicyFor(key) == IF FeedHasInStock(key) THEN "CONTINUE" ELSE "DENY"

(* C25: after a run in which no request failed, every variant of every
   product has the policy CONTINUE if the feed lists it in stock and DENY
   otherwise. *)
C25_AllVariantsCovered ==
    (sync_run = 1 /\ ypc = "ended" /\ RunSucceeded(1)) =>
        \A k \in DOMAIN shop_catalog :
            \A j \in DOMAIN shop_catalog[k].variants :
                shop_catalog[k].variants[j].inventoryPolicy
                    = PolicyFor(shop_catalog[k].variants[j].key)

(* C26: the bulk update of a product holds exactly the variants whose policy
   differs from the expected one, none is sent for a product without such a
   variant, and the run after a fully successful one sends none at all. *)
C26_UpdateOnlyIfNecessary ==
    \A e \in Range(sync_log) :
        e.product # 0 =>
            /\ {v.id : v \in Range(e.sent)}
                  = {j \in DOMAIN e.before :
                        e.before[j].inventoryPolicy # PolicyFor(e.before[j].key)}
            /\ \A v \in Range(e.sent) : v.inventoryPolicy = PolicyFor(e.before[v.id].key)
            /\ e.outcome = "none" <=> e.sent = <<>>
            /\ (e.run = 2 /\ RunSucceeded(1)) => e.sent = <<>>

-----------------------------------------------------------------------------
(* Colour images: what the claim speaks of *)

ImageCallsOf(kind) == {c \in Range(image_calls) : c.kind = kind}

\* the colour of the row a created variant was made of
ColorOfVariant(id) ==
    LET row == CHOOSE i \in DOMAIN image_rows : <<"gid", image_rows[i].sku>> = id
    IN  image_rows[row].color

\* the colours that have an image and a created variant
ColorsToShow ==
    {c \in Range(color_image_urls) :
        \E i \in DOMAIN created_variants : ColorOfVariant(created_variants[i].id) = c}

(* C21: the upload carries one image for each colour that has an image and a
   created variant, each once, and a media item is assigned only to created
   variants of the colour its image was supplied for, whatever media list
   the upload returned. *)
C21_MediaGoesToItsColor ==
    /\ \A c \in ImageCallsOf("productCreateMedia") :
          /\ {c.inputs[i].alt : i \in DOMAIN c.inputs} = ColorsToShow
          /\ Len(c.inputs) = Cardinality(ColorsToShow)
    /\ \A c \in ImageCallsOf("productVariantsBulkUpdate") :
          \A i \in DOMAIN c.variants : ColorOfVariant(c.variants[i]) = c.media.alt

=============================================================================
